---- MODULE Spec2Model ----
(***************************************************************************)
(* Real-Estate-Monitor: the listing ingestion pipeline.                    *)
(*                                                                         *)
(* The storage (SQLAlchemy session over the listings / price_history /     *)
(* description_history tables), the batch loop of ListingProcessor, the    *)
(* DuplicateDetector, the ListingFilter, the phone normalizer and the      *)
(* DealScoreCalculator, translated from the Python sources.                *)
(*                                                                         *)
(* Conventions                                                             *)
(*   - text that the code inspects character by character (addresses,     *)
(*     phones) is a sequence of one-character strings; other text is an   *)
(*     opaque TLA+ string;                                                 *)
(*   - Python None and a missing dictionary key are the markers below;    *)
(*   - money and sizes are integers; a deal score is an exact fraction     *)
(*     [num, den]; time is counted in whole days.                          *)
(***************************************************************************)
EXTENDS Integers, Sequences, FiniteSets, TLC

\* ------------------------------------------------------------------------
\* Python None / missing key
\* ------------------------------------------------------------------------
NoneNum   == -1                \* None in a numeric field
AbsentNum == -2                \* key missing, numeric field
NoneStr   == "<None>"          \* None in an opaque text field
AbsentStr == "<Absent>"        \* key missing, opaque text field
NoneTxt   == <<"<None>">>      \* None in a character-sequence field
AbsentTxt == <<"<Absent>">>    \* key missing, character-sequence field

\* dict.get(key): a missing key reads as None
GetNum(v) == IF v = AbsentNum THEN NoneNum ELSE v
GetStr(v) == IF v = AbsentStr THEN NoneStr ELSE v
GetTxt(v) == IF v = AbsentTxt THEN NoneTxt ELSE v

\* Python truthiness
TruthyNum(v) == v # NoneNum /\ v # AbsentNum /\ v # 0
TruthyStr(v) == v # NoneStr /\ v # AbsentStr /\ v # ""
TruthyTxt(v) == v # NoneTxt /\ v # AbsentTxt /\ v # <<>>
TruthyBool(v) == v = "True"

Max(S) == CHOOSE x \in S : \A y \in S : y <= x

\* ------------------------------------------------------------------------
\* The addresses and the phone number of the raw listings
\* ------------------------------------------------------------------------
A1 == <<"H","e","r","z","l"," ","1","0",","," ","T","L","V">>
A2 == <<"h","e","r","z","l"," ","2","5",","," ","t","l","v">>
A3 == <<"h","e","r","z","l"," ","2","5",","," ","t","l","x">>
P1 == <<"+","9","7","2","-","5","0","-","1","2","3","4","5","6","7">>

AddressTexts == {A1, A2, A3, <<>>}
PhoneTexts == {P1}

\* ------------------------------------------------------------------------
\* Character-level helpers (str.lower, str.strip, str.replace, str.isdigit)
\* ------------------------------------------------------------------------
Digits == {"0", "1", "2", "3", "4", "5", "6", "7", "8", "9"}
Whitespace == {" ", "\t", "\n"}

LowerChar(c) ==
    CASE c = "H" -> "h"
      [] c = "T" -> "t"
      [] c = "L" -> "l"
      [] c = "V" -> "v"
      [] OTHER -> c

Lower(s) == [i \in 1..Len(s) |-> LowerChar(s[i])]

IsWs(c) == c \in Whitespace

\* str.strip(): drop leading and trailing whitespace
Strip(s) ==
    LET keep == {i \in 1..Len(s) : ~IsWs(s[i])}
    IN IF keep = {} THEN <<>>
       ELSE LET lo == CHOOSE i \in keep : \A j \in keep : i <= j
                hi == CHOOSE i \in keep : \A j \in keep : j <= i
            IN SubSeq(s, lo, hi)

IsNotSpace(c) == c # " "
\* str.replace(' ', ''): only the space character is removed
RemoveSpaces(s) == SelectSeq(s, IsNotSpace)

IsDigit(c) == c \in Digits

\* ------------------------------------------------------------------------
\* app/utils/phone_normalizer.py
\* ------------------------------------------------------------------------
StartsWith972(d) == Len(d) >= 3 /\ d[1] = "9" /\ d[2] = "7" /\ d[3] = "2"

\* variant: the country code is not converted to the leading 0
NormalizePhone_no_country_code(phone) ==
    IF ~TruthyTxt(phone) THEN NoneTxt
    ELSE LET digits == SelectSeq(phone, IsDigit)
         IN IF digits = <<>> THEN NoneTxt
            ELSE LET d2 == IF Len(digits) > 10 /\ digits[1] = "0"
                           THEN SubSeq(digits, 1, 10)
                           ELSE digits
                 IN IF Len(d2) \notin {9, 10} THEN NoneTxt ELSE d2

NormalizePhone(phone) ==
    IF ~TruthyTxt(phone) THEN NoneTxt
    ELSE LET digits == SelectSeq(phone, IsDigit)
         IN IF digits = <<>> THEN NoneTxt
            ELSE LET d1 == IF StartsWith972(digits)
                           THEN <<"0">> \o SubSeq(digits, 4, Len(digits))
                           ELSE digits
                     d2 == IF Len(d1) > 10 /\ d1[1] = "0"
                           THEN SubSeq(d1, 1, 10)
                           ELSE d1
                 IN IF Len(d2) \notin {9, 10} THEN NoneTxt ELSE d2

\* the function, tabulated once for the phone texts of the raw listings
PhoneTable == [p \in PhoneTexts |-> NormalizePhone(p)] @@ [p \in {} |-> <<>>]

normalize_israeli_phone(phone) ==
    IF phone \in DOMAIN PhoneTable THEN PhoneTable[phone] ELSE NormalizePhone(phone)

\* ------------------------------------------------------------------------
\* app/core/database.py: Listing.generate_property_hash
\* The SHA-256 digest is represented by the string it is taken of
\* (normalized address, rooms, size): equal strings give equal digests and
\* different strings of the corpus give different digests.
\* ------------------------------------------------------------------------
NormalizeAddress(address) == RemoveSpaces(Strip(Lower(address)))

\* the normalization, tabulated once for the address texts of the raw listings
NormalizedTable == [a \in AddressTexts |-> NormalizeAddress(a)] @@ [a \in {} |-> <<>>]

generate_property_hash(address, rooms, size_sqm) ==
    <<IF address \in DOMAIN NormalizedTable THEN NormalizedTable[address]
      ELSE NormalizeAddress(address),
      rooms, size_sqm>>

\* address.lower() on None raises AttributeError
HashRaises(address) == address = NoneTxt

\* ------------------------------------------------------------------------
\* fuzzywuzzy fuzz.ratio as called by find_by_phone_fuzzy:
\* 100 for equal strings, 0 when one is empty, else
\* int(round(100 * 2*M / T)) with M the number of matched characters
\* (longest common subsequence) and T the total length.
\* ------------------------------------------------------------------------
\* one row of the dynamic-programming table, as a tuple: Row[j + 1] is the
\* length for the first j characters of b
RECURSIVE LCSRow(_, _, _, _)
LCSRow(prev, c, b, row) ==
    IF Len(row) > Len(b) THEN row
    ELSE LET j == Len(row)
         IN LCSRow(prev, c, b,
                   Append(row, IF b[j] = c THEN prev[j] + 1
                               ELSE IF prev[j + 1] >= row[j] THEN prev[j + 1]
                               ELSE row[j]))

RECURSIVE LCSFrom(_, _, _, _)
LCSFrom(a, b, i, prev) ==
    IF i > Len(a) THEN prev[Len(b) + 1]
    ELSE LCSFrom(a, b, i + 1, LCSRow(prev, a[i], b, <<0>>))

LCS(a, b) == LCSFrom(a, b, 1, [j \in 1..(Len(b) + 1) |-> 0])

\* int(round(n / d)), ties to even as Python's round
RoundDiv(n, d) ==
    LET q == n \div d
        r == n % d
    IN IF 2 * r < d THEN q
       ELSE IF 2 * r > d THEN q + 1
       ELSE IF q % 2 = 0 THEN q ELSE q + 1

fuzz_ratio(s1, s2) ==
    IF s1 = s2 THEN 100
    ELSE IF Len(s1) = 0 \/ Len(s2) = 0 THEN 0
    ELSE RoundDiv(200 * LCS(s1, s2), Len(s1) + Len(s2))

\* fuzz.ratio(a.lower(), b.lower()), tabulated once for the address texts
RatioTable ==
    [p \in AddressTexts \X AddressTexts |-> fuzz_ratio(Lower(p[1]), Lower(p[2]))]
    @@ [p \in {} |-> 0]

AddressSimilarity(a, b) ==
    IF <<a, b>> \in DOMAIN RatioTable THEN RatioTable[<<a, b>>]
    ELSE fuzz_ratio(Lower(a), Lower(b))

\* ------------------------------------------------------------------------
\* app/core/config.py: Settings (field defaults)
\* rooms are counted in tenths of a room (2.5 rooms = 25)
\* ------------------------------------------------------------------------
max_price == 3000000
min_rooms == 25
min_size_sqm == 65
require_elevator_above_floor == 2
min_deal_score_notify == 80
min_price_drop_percent_notify == 3

\* score weights read by DealScoreCalculator from the settings object
deal_score_weight_price == 40
deal_score_weight_features == 30
deal_score_weight_recency == 15
deal_score_weight_price_trend == 15

Cities == {"tel aviv-yafo", "ramat gan", "givatayim"}

settings ==
    [ max_price |-> max_price,
      min_rooms |-> min_rooms,
      min_size_sqm |-> min_size_sqm,
      cities |-> Cities,
      exclude_ground_floor |-> TRUE,
      require_elevator_above_floor |-> require_elevator_above_floor,
      require_parking |-> FALSE,
      require_mamad |-> FALSE,
      prefer_balcony |-> TRUE,
      prefer_parking |-> TRUE,
      prefer_elevator |-> TRUE,
      prefer_top_floors |-> TRUE,
      prefer_mamad |-> TRUE,
      min_deal_score_notify |-> min_deal_score_notify,
      min_price_drop_percent_notify |-> min_price_drop_percent_notify,
      deal_score_weight_price |-> deal_score_weight_price,
      deal_score_weight_features |-> deal_score_weight_features,
      deal_score_weight_recency |-> deal_score_weight_recency,
      deal_score_weight_price_trend |-> deal_score_weight_price_trend ]

\* ------------------------------------------------------------------------
\* utils/listing_filter.py: ListingFilter (s is the settings object)
\* ------------------------------------------------------------------------
\* dict.get(key, False) for an amenity flag
GetFlag(v) == IF v = AbsentStr THEN "False" ELSE v

passes_price_filter(s, raw) ==
    LET price == GetNum(raw.price)
    IN IF ~TruthyNum(price) THEN TRUE ELSE price <= s.max_price

passes_rooms_filter(s, raw) ==
    LET rooms == GetNum(raw.rooms)
    IN IF ~TruthyNum(rooms) THEN TRUE ELSE rooms >= s.min_rooms

passes_size_filter(s, raw) ==
    LET size == GetNum(raw.size_sqm)
    IN IF ~TruthyNum(size) THEN TRUE ELSE size >= s.min_size_sqm

passes_deal_breakers(s, raw) ==
    LET floor == GetNum(raw.floor)
    IN /\ ~(s.exclude_ground_floor /\ floor # NoneNum /\ floor = 0)
       /\ ~(/\ s.require_elevator_above_floor # 0
            /\ floor # NoneNum
            /\ floor > s.require_elevator_above_floor
            /\ ~TruthyBool(GetFlag(raw.has_elevator)))
       /\ ~(s.require_parking /\ ~TruthyBool(GetFlag(raw.has_parking)))
       /\ ~(s.require_mamad /\ ~TruthyBool(GetFlag(raw.has_mamad)))

passes_city_filter(s, raw) ==
    LET city == GetStr(raw.city)
    IN IF ~TruthyStr(city) THEN TRUE
       ELSE IF s.cities = {} THEN TRUE
       ELSE city \in s.cities

passes_all_filters(s, raw) ==
    /\ passes_price_filter(s, raw)
    /\ passes_rooms_filter(s, raw)
    /\ passes_size_filter(s, raw)
    /\ passes_deal_breakers(s, raw)
    /\ passes_city_filter(s, raw)

\* ------------------------------------------------------------------------
\* app/core/deal_score.py: DealScoreCalculator
\* A score is the exact fraction num/den.  Component values are kept in
\* thousandths of a point; the feature component has the declared total
\* weight as denominator.
\* l is the listing object, nstats the neighborhood_stats table, hist the
\* listing's price_history rows in insertion order, today the current day.
\* ------------------------------------------------------------------------
\* first NeighborhoodStats row of the listing's (city, neighborhood)
StatsRows(nstats, l) ==
    {st \in nstats : st.city = l.city /\ st.neighborhood = l.neighborhood}

\* thousandths of a point
score_price_competitiveness(s, l, nstats) ==
    IF ~TruthyNum(l.price_per_sqm) \/ l.price_per_sqm <= 0 THEN 0
    ELSE LET max_score == s.deal_score_weight_price
             rows == StatsRows(nstats, l)
         IN IF rows = {} THEN max_score * 500
            ELSE LET st == CHOOSE r \in rows : TRUE
                 IN IF st.avg_ppsqm_num = 0 THEN max_score * 500
                    ELSE LET \* price_ratio = price_per_sqm / avg, avg = num/den
                             p == l.price_per_sqm * st.avg_ppsqm_den
                             a == st.avg_ppsqm_num
                         IN IF 10 * p <= 7 * a THEN max_score * 1000
                            ELSE IF 10 * p <= 8 * a THEN max_score * 875
                            ELSE IF 10 * p <= 9 * a THEN max_score * 750
                            ELSE IF p <= a THEN max_score * 625
                            ELSE IF 10 * p <= 11 * a THEN max_score * 375
                            ELSE IF 10 * p <= 12 * a THEN max_score * 250
                            ELSE max_score * 125

\* the (has_feature, weight) pairs of the declared preferences
Features(s, l) ==
    (IF s.prefer_parking THEN {<<"parking", TruthyBool(l.has_parking), 10>>} ELSE {})
    \cup (IF s.prefer_balcony THEN {<<"balcony", TruthyBool(l.has_balcony), 8>>} ELSE {})
    \cup (IF s.prefer_elevator THEN {<<"elevator", TruthyBool(l.has_elevator), 7>>} ELSE {})
    \cup (IF s.prefer_mamad THEN {<<"mamad", TruthyBool(l.has_mamad), 8>>} ELSE {})
    \cup (IF s.prefer_top_floors /\ TruthyNum(l.floor) /\ TruthyNum(l.total_floors)
          THEN {<<"top_floor", 2 * l.floor >= l.total_floors, 5>>} ELSE {})

RECURSIVE SumWeights(_)
SumWeights(F) ==
    IF F = {} THEN 0
    ELSE LET f == CHOOSE x \in F : TRUE IN f[3] + SumWeights(F \ {f})

FeaturesTotalWeight(s, l) == SumWeights(Features(s, l))

\* numerator over the denominator FeaturesTotalWeight, in points
score_features_num(s, l) ==
    SumWeights({f \in Features(s, l) : f[2]}) * s.deal_score_weight_features

\* thousandths of a point
score_recency(s, l, today) ==
    LET max_score == s.deal_score_weight_recency
    IN IF l.first_seen = NoneNum THEN max_score * 1000
       ELSE LET days_old == today - l.first_seen
            IN IF days_old = 0 THEN max_score * 1000
               ELSE IF days_old <= 2 THEN max_score * 800
               ELSE IF days_old <= 5 THEN max_score * 600
               ELSE IF days_old <= 10 THEN max_score * 400
               ELSE IF days_old <= 20 THEN max_score * 200
               ELSE max_score * 67

\* thousandths of a point
score_price_trend(s, hist) ==
    LET max_score == s.deal_score_weight_price_trend
        neutral_score == max_score * 333
    IN IF Len(hist) < 2 THEN neutral_score
       ELSE LET current_price == hist[Len(hist)].price
                previous_price == hist[Len(hist) - 1].price
            IN IF ~TruthyNum(current_price) \/ ~TruthyNum(previous_price)
                  \/ previous_price <= 0
               THEN neutral_score
               ELSE LET d == (current_price - previous_price) * 100
                    IN IF d <= -10 * previous_price THEN max_score * 1000
                       ELSE IF d <= -5 * previous_price THEN max_score * 800
                       ELSE IF d <= -2 * previous_price THEN max_score * 600
                       ELSE IF d < 0 THEN max_score * 467
                       ELSE IF d = 0 THEN neutral_score
                       ELSE max_score * 133

\* variant: the sum of the four components is returned as it is
calculate_score_unclamped(s, l, nstats, hist, today) ==
    LET total == FeaturesTotalWeight(s, l)
        den == IF total > 0 THEN 1000 * total ELSE 1000
        thousandths == score_price_competitiveness(s, l, nstats)
                       + score_recency(s, l, today)
                       + score_price_trend(s, hist)
        num == IF total > 0
               THEN total * thousandths + 1000 * score_features_num(s, l)
               ELSE thousandths
    IN [num |-> num, den |-> den]

calculate_score(s, l, nstats, hist, today) ==
    LET total == FeaturesTotalWeight(s, l)
        den == IF total > 0 THEN 1000 * total ELSE 1000
        thousandths == score_price_competitiveness(s, l, nstats)
                       + score_recency(s, l, today)
                       + score_price_trend(s, hist)
        num == IF total > 0
               THEN total * thousandths + 1000 * score_features_num(s, l)
               ELSE thousandths
    IN \* min(100.0, max(0.0, score))
       IF num < 0 THEN [num |-> 0, den |-> den]
       ELSE IF num > 100 * den THEN [num |-> 100 * den, den |-> den]
       ELSE [num |-> num, den |-> den]

\* ------------------------------------------------------------------------
\* Bounds and the raw listings fed to the processor
\* ------------------------------------------------------------------------
MaxCalls == 3      \* process_single_listing calls in one behaviour
MaxDay == 2        \* days the clock advances
MaxBatch == 3      \* raw listings in a batch that is permuted

Sources == {"yad2", "madlan"}
Statuses == {"unseen", "interested", "not_interested", "contacted"}

BaseRaw ==
    [ source |-> "yad2", external_id |-> AbsentStr, title |-> "t1",
      description |-> AbsentStr, address |-> A1, city |-> "ramat gan",
      neighborhood |-> AbsentStr, rooms |-> 30, size_sqm |-> 100,
      floor |-> AbsentNum, total_floors |-> AbsentNum,
      has_elevator |-> AbsentStr, has_parking |-> AbsentStr,
      has_balcony |-> AbsentStr, has_mamad |-> AbsentStr,
      price |-> 3000000, price_per_sqm |-> AbsentNum,
      contact_phone |-> AbsentTxt ]

\* raw listings that differ in the identity fields
IdentityCorpus ==
    { [BaseRaw EXCEPT !.source = src, !.external_id = ext,
                      !.address = addr, !.contact_phone = P1] :
        src \in Sources, ext \in {AbsentStr, "e1"}, addr \in {A1, A2} }
    \cup { [BaseRaw EXCEPT !.address = A3, !.contact_phone = P1],
           [BaseRaw EXCEPT !.address = A3],
           [BaseRaw EXCEPT !.address = NoneTxt] }

\* raw listings of one property that differ in the mutable fields
UpdateCorpus ==
    { [BaseRaw EXCEPT !.description = d, !.price = p] :
        d \in {AbsentStr, "d1", "d2"},
        p \in {AbsentNum, 2910000, 2940000, 3000000} }
    \cup { [BaseRaw EXCEPT !.title = AbsentStr],
           [BaseRaw EXCEPT !.title = AbsentStr, !.price = AbsentNum],
           [BaseRaw EXCEPT !.price = 3100000] }

\* raw listings of one neighborhood: three properties with a price per sqm,
\* a new price for the first, and one without a price per sqm
StatsCorpus ==
    { [BaseRaw EXCEPT !.neighborhood = "center", !.price_per_sqm = 30000],
      [BaseRaw EXCEPT !.neighborhood = "center", !.address = A2, !.price = 2800000,
                      !.price_per_sqm = 28000],
      [BaseRaw EXCEPT !.neighborhood = "center", !.address = A3, !.price = 2700000,
                      !.price_per_sqm = 27000],
      [BaseRaw EXCEPT !.neighborhood = "center", !.price = 2910000,
                      !.price_per_sqm = 29100],
      [BaseRaw EXCEPT !.neighborhood = "center", !.address = <<>>, !.price = 2600000] }

\* raw listings with every combination of the four amenities
AmenityCorpus ==
    { [BaseRaw EXCEPT !.has_elevator = he, !.has_parking = hp, !.has_balcony = hb,
                      !.has_mamad = hm] :
        he \in {AbsentStr, "True"}, hp \in {"False", "True"},
        hb \in {AbsentStr, "True"}, hm \in {"False", "True"} }

\* raw listings of one batch: the same property at three prices, and two
\* other properties, one of them without a title
PermuteCorpus ==
    { BaseRaw,
      [BaseRaw EXCEPT !.price = 2910000],
      [BaseRaw EXCEPT !.price = 3100000],
      [BaseRaw EXCEPT !.address = A2, !.title = AbsentStr],
      [BaseRaw EXCEPT !.address = A3] }

\* well-formed, filtered and malformed raw listings
IngestCorpus ==
    { BaseRaw,
      [BaseRaw EXCEPT !.price = 2910000],
      [BaseRaw EXCEPT !.price = 3100000],
      [BaseRaw EXCEPT !.price_per_sqm = 99],
      [BaseRaw EXCEPT !.title = AbsentStr],
      [BaseRaw EXCEPT !.address = AbsentTxt],
      [BaseRaw EXCEPT !.address = <<>>, !.price = 2910000],
      [BaseRaw EXCEPT !.address = NoneTxt] }

\* ------------------------------------------------------------------------
\* State
\* ------------------------------------------------------------------------
VARIABLES
    listings,            \* the session's view of the listings table (row id = index),
                         \* each row with its price_history / description_history rows
    committed,           \* the listings table as of the last commit
    neighborhood_stats,  \* the neighborhood_stats table
    session_ok,          \* FALSE once a flush failed and the session awaits rollback()
    pc,                  \* "idle" | "batch": inside process_listings or not
    batch_source,        \* the source argument of the running process_listings
    stats,               \* the stats dictionary of the running / last batch
    processed,           \* raw listings handled so far in the running batch
    batch_result,        \* how the last process_listings ended: "none" | "returned" | "raised"
    call,                \* the last process_single_listing call and what it did
    now,                 \* current day (utcnow)
    ncalls,              \* process_single_listing calls so far
    probe,               \* arguments and result of a function called on its own
    sessions,            \* the sessions of batches that run side by side on the storage
    notifications,       \* the notifications table, in insertion order
    delivered,           \* the messages the Telegram bot has sent, in order
    notifier,            \* per notification pass: its TelegramNotifier call in progress
    retrying,            \* the scrape_with_retry call: its position, arguments and attempts
    shutdown_event,      \* "None" (no event given) | "clear" | "set"
    scraping_state,      \* the scraping_state row of the scraper's source
    captcha_state,       \* the CaptchaState singleton all scrapers share
    handlers,            \* per scraper: its _handle_anti_bot_protection call
    clock                \* the time the CAPTCHA handlers read (utcnow), in ticks

\* the state of what runs beside the scrape job
notify_vars == <<notifications, delivered, notifier>>

scraper_vars == <<retrying, shutdown_event, scraping_state>>

captcha_vars == <<captcha_state, handlers, clock>>

others == <<sessions, notify_vars, scraper_vars, captcha_vars>>

vars == <<listings, committed, neighborhood_stats, session_ok, pc, batch_source,
          stats, processed, batch_result, call, now, ncalls, probe, others>>

ZeroStats == [new |-> 0, updated |-> 0, duplicates |-> 0, filtered |-> 0, price_drops |-> 0]

NoCall == [kind |-> "none"]

NoProbe == [kind |-> "none"]

SessionIds == {1, 2}

IdleSession ==
    [ pc |-> "idle", batch |-> <<>>, idx |-> 1, view |-> <<>>, base |-> 0,
      session_ok |-> TRUE, stats |-> ZeroStats, result |-> "none", rejected |-> 0 ]

NoSessions == [s \in SessionIds |-> IdleSession]

\* the notification passes of the scrape jobs (_notify_new_listings), each
\* with its own TelegramNotifier
Passes == {1, 2}

NoNotification == [pc |-> "idle", listing_id |-> 0, notification_type |-> "", status |-> "",
                   returned |-> "none"]

NoNotifier == [j \in Passes |-> NoNotification]

\* no scrape_with_retry call is running
NoRetry ==
    [ pc |-> "idle", max_retries |-> 0, retry_delay |-> 0, attempt |-> 0,
      waited |-> 0, outcomes |-> <<>>, result |-> "none" ]

\* the scrapers that share the CAPTCHA state
Scrapers == {"yad2", "madlan"}

\* CaptchaState as the class defines it
NormalState == [status |-> "NORMAL", waiting_since |-> NoneNum, source |-> NoneStr]

NoHandler == [pc |-> "idle", ended |-> "none"]

NoHandlers == [s \in Scrapers |-> NoHandler]

\* no scraping_state row yet
NoScrapingState == [status |-> "none", error_count |-> 0, error_message |-> "<None>"]

Ids(db) == DOMAIN db

\* ------------------------------------------------------------------------
\* app/utils/duplicate_detector.py: DuplicateDetector
\* db is the listings table; a result names the row id, 0 for None
\* ------------------------------------------------------------------------
similarity_threshold == 85

MinOrZero(S) == IF S = {} THEN 0 ELSE CHOOSE i \in S : \A j \in S : i <= j

\* variant: the hash lookup never finds a row (C1 must notice)
find_by_property_hash_miss(db, property_hash) == 0

find_by_property_hash(db, property_hash) ==
    MinOrZero({i \in Ids(db) : db[i].property_hash = property_hash})

find_by_external_id(db, source, external_id) ==
    IF ~TruthyStr(external_id) THEN 0
    ELSE MinOrZero({i \in Ids(db) : /\ db[i].source # NoneStr
                                    /\ db[i].source = source
                                    /\ db[i].external_id # NoneStr
                                    /\ db[i].external_id = external_id})

\* rows the query on contact_phone can return first (no ORDER BY)
PhoneRows(db, phone) ==
    IF ~TruthyTxt(phone) THEN {}
    ELSE {i \in Ids(db) : db[i].contact_phone = phone}

PhoneFirstChoices(db, phone) ==
    IF PhoneRows(db, phone) = {} THEN {0} ELSE PhoneRows(db, phone)

\* first is the row .first() returned; raises when that row has no address
find_by_phone_fuzzy(db, phone, address, first) ==
    IF ~TruthyTxt(phone) \/ ~TruthyTxt(address)
    THEN [listing |-> 0, similarity |-> 0, raises |-> FALSE]
    ELSE IF first = 0
    THEN [listing |-> 0, similarity |-> 0, raises |-> FALSE]
    ELSE IF db[first].address = NoneTxt
    THEN [listing |-> 0, similarity |-> 0, raises |-> TRUE]
    ELSE LET similarity == AddressSimilarity(db[first].address, address)
         IN IF similarity > similarity_threshold
            THEN [listing |-> first, similarity |-> similarity, raises |-> FALSE]
            ELSE [listing |-> 0, similarity |-> similarity, raises |-> FALSE]

\* variant: (source, external_id) is tried before the hash (C8 must notice)
find_duplicate_external_first(db, property_hash, source, external_id, phone, address, first) ==
    LET byHash == find_by_property_hash(db, property_hash)
        byExt  == find_by_external_id(db, source, external_id)
        byPhone == find_by_phone_fuzzy(db, phone, address, first)
        consulted == IF TruthyTxt(phone) /\ TruthyTxt(address) THEN first ELSE 0
    IN IF TruthyStr(external_id) /\ byExt # 0
       THEN [listing |-> byExt, method |-> "external_id", similarity |-> 0,
             raises |-> FALSE, searched |-> TRUE, consulted |-> 0]
       ELSE IF byHash # 0
       THEN [listing |-> byHash, method |-> "property_hash", similarity |-> 0,
             raises |-> FALSE, searched |-> TRUE, consulted |-> 0]
       ELSE IF TruthyTxt(phone) /\ byPhone.raises
       THEN [listing |-> 0, method |-> "", similarity |-> 0,
             raises |-> TRUE, searched |-> TRUE, consulted |-> consulted]
       ELSE IF TruthyTxt(phone) /\ byPhone.listing # 0
       THEN [listing |-> byPhone.listing, method |-> "phone_fuzzy",
             similarity |-> byPhone.similarity,
             raises |-> FALSE, searched |-> TRUE, consulted |-> consulted]
       ELSE [listing |-> 0, method |-> "", similarity |-> 0,
             raises |-> FALSE, searched |-> TRUE, consulted |-> consulted]

\* a result also tells which row strategy 3 looked at (consulted, 0 if none)
find_duplicate(db, property_hash, source, external_id, phone, address, first) ==
    LET byHash == find_by_property_hash(db, property_hash)
        byExt  == find_by_external_id(db, source, external_id)
        byPhone == find_by_phone_fuzzy(db, phone, address, first)
        consulted == IF TruthyTxt(phone) /\ TruthyTxt(address) THEN first ELSE 0
    IN IF byHash # 0
       THEN [listing |-> byHash, method |-> "property_hash", similarity |-> 0,
             raises |-> FALSE, searched |-> TRUE, consulted |-> 0]
       ELSE IF TruthyStr(external_id) /\ byExt # 0
       THEN [listing |-> byExt, method |-> "external_id", similarity |-> 0,
             raises |-> FALSE, searched |-> TRUE, consulted |-> 0]
       ELSE IF TruthyTxt(phone) /\ byPhone.raises
       THEN [listing |-> 0, method |-> "", similarity |-> 0,
             raises |-> TRUE, searched |-> TRUE, consulted |-> consulted]
       ELSE IF TruthyTxt(phone) /\ byPhone.listing # 0
       THEN [listing |-> byPhone.listing, method |-> "phone_fuzzy",
             similarity |-> byPhone.similarity,
             raises |-> FALSE, searched |-> TRUE, consulted |-> consulted]
       ELSE [listing |-> 0, method |-> "", similarity |-> 0,
             raises |-> FALSE, searched |-> TRUE, consulted |-> consulted]

\* ------------------------------------------------------------------------
\* app/core/database.py: the unique constraints of the listings table
\* (property_hash unique; (source, external_id) unique, NULLs distinct)
\* ------------------------------------------------------------------------
UniqueViolation(db, row) ==
    IF \E i \in Ids(db) : db[i].property_hash = row.property_hash
    THEN "property_hash"
    ELSE IF /\ row.source # NoneStr
            /\ row.external_id # NoneStr
            /\ \E i \in Ids(db) : /\ db[i].source = row.source
                                  /\ db[i].external_id = row.external_id
    THEN "source_external_id"
    ELSE "none"

\* ------------------------------------------------------------------------
\* app/core/listing_processor.py: ListingProcessor
\* A result carries the outcome tag ("raised" with the error when the call
\* raises), the session's listings afterwards and whether the session is
\* still usable.
\* ------------------------------------------------------------------------
Result(outcome, error, db, ok, integrity, listing, fd, old_price, old_status) ==
    [ outcome |-> outcome, error |-> error, listings |-> db, session_ok |-> ok,
      integrity |-> integrity, listing |-> listing, searched |-> fd.searched,
      found |-> fd.listing, method |-> fd.method, similarity |-> fd.similarity,
      consulted |-> fd.consulted, old_price |-> old_price,
      old_status |-> old_status ]

\* find_duplicate was not called, or raised
NoSearch == [listing |-> 0, method |-> "", similarity |-> 0, raises |-> FALSE,
             searched |-> FALSE, consulted |-> 0]

\* the Listing object built by _create_new_listing (has_mamad is not passed)
NewListing(raw, property_hash, today) ==
    [ property_hash |-> property_hash,
      source |-> GetStr(raw.source),
      external_id |-> GetStr(raw.external_id),
      title |-> GetStr(raw.title),
      description |-> GetStr(raw.description),
      address |-> GetTxt(raw.address),
      city |-> GetStr(raw.city),
      neighborhood |-> GetStr(raw.neighborhood),
      rooms |-> GetNum(raw.rooms),
      size_sqm |-> GetNum(raw.size_sqm),
      floor |-> GetNum(raw.floor),
      total_floors |-> GetNum(raw.total_floors),
      has_elevator |-> GetFlag(raw.has_elevator),
      has_parking |-> GetFlag(raw.has_parking),
      has_balcony |-> GetFlag(raw.has_balcony),
      has_mamad |-> NoneStr,
      price |-> GetNum(raw.price),
      price_per_sqm |-> GetNum(raw.price_per_sqm),
      contact_phone |-> normalize_israeli_phone(GetTxt(raw.contact_phone)),
      first_seen |-> today,
      last_seen |-> today,
      last_checked |-> today,
      status |-> "unseen",
      user_note |-> NoneStr,
      deal_score |-> [num |-> 0, den |-> 1000],
      price_history |-> <<>>,
      description_history |-> <<>> ]

create_new_listing(db, cm, nstats, fd, raw, property_hash, today) ==
    LET obj == NewListing(raw, property_hash, today)
        scored == [obj EXCEPT !.deal_score =
                       calculate_score(settings, obj, nstats, obj.price_history, today)]
        \* db.add + db.flush: the INSERT applies the column default of has_mamad
        row == [scored EXCEPT !.has_mamad = "False"]
        violation == UniqueViolation(db, row)
        id == Len(db) + 1
        withPrice == IF TruthyNum(row.price)
                     THEN [row EXCEPT !.price_history =
                               Append(@, [price |-> row.price,
                                          price_per_sqm |-> row.price_per_sqm,
                                          timestamp |-> today])]
                     ELSE row
        withDesc == IF TruthyStr(row.description)
                    THEN [withPrice EXCEPT !.description_history =
                              Append(@, [description |-> row.description,
                                         timestamp |-> today])]
                    ELSE withPrice
        db1 == Append(db, withDesc)
    IN IF violation # "none"
       THEN \* IntegrityError: the flush rolls the transaction back and
            \* leaves the session inactive
            Result("raised", "IntegrityError", cm, FALSE, violation, 0,
                   fd, NoneNum, NoneStr)
       ELSE IF row.title = NoneStr
       THEN \* listing.title[:50] in the closing log line
            Result("raised", "TypeError", db1, TRUE, "none", id,
                   fd, NoneNum, NoneStr)
       ELSE Result("new", "", db1, TRUE, "none", id, fd, NoneNum, NoneStr)

\* variant: the drop must exceed the configured percentage (C4 must notice)
SignificantDropStrict(old_price, new_price) ==
    /\ TruthyNum(old_price)
    /\ new_price < old_price
    /\ (old_price - new_price) * 100 > settings.min_price_drop_percent_notify * old_price

\* new_price < old_price by at least the configured percentage
SignificantDrop(old_price, new_price) ==
    /\ TruthyNum(old_price)
    /\ new_price < old_price
    /\ (old_price - new_price) * 100 >= settings.min_price_drop_percent_notify * old_price

\* variant: every price of a raw listing counts as a change
PriceChanged_always(l, new_price) == TruthyNum(new_price)

\* if new_price and new_price != listing.price
PriceChanged(l, new_price) == TruthyNum(new_price) /\ new_price # l.price

\* variant: a significant drop resets every status
StatusAfterPriceChange_any_status(l, old_price, new_price) ==
    IF SignificantDrop(old_price, new_price) THEN "unseen" ELSE l.status

\* a significant drop resets 'not_interested' to 'unseen'
StatusAfterPriceChange(l, old_price, new_price) ==
    IF SignificantDrop(old_price, new_price) /\ l.status = "not_interested"
    THEN "unseen" ELSE l.status

update_existing_listing(db, nstats, id, fd, raw, today) ==
    LET l == db[id]
        new_price == GetNum(raw.price)
        old_price == l.price
        price_changed == PriceChanged(l, new_price)
        new_ppsqm == IF TruthyNum(l.size_sqm) /\ l.size_sqm > 0
                     THEN new_price \div l.size_sqm
                     ELSE l.price_per_sqm
        l1 == [l EXCEPT !.last_seen = today, !.last_checked = today]
        l2 == IF price_changed
              THEN [l1 EXCEPT
                      !.price = new_price,
                      !.price_per_sqm = new_ppsqm,
                      !.price_history = Append(@, [price |-> new_price,
                                                   price_per_sqm |-> new_ppsqm,
                                                   timestamp |-> today]),
                      !.status = StatusAfterPriceChange(l, old_price, new_price)]
              ELSE l1
        new_description == GetStr(raw.description)
        description_changed == TruthyStr(new_description)
                               /\ new_description # l.description
        l3 == IF description_changed
              THEN [l2 EXCEPT
                      !.description = new_description,
                      !.description_history =
                          Append(@, [description |-> new_description,
                                     timestamp |-> today])]
              ELSE l2
        l4 == IF TruthyStr(GetStr(raw.title))
              THEN [l3 EXCEPT !.title = raw.title] ELSE l3
        l5 == [l4 EXCEPT !.deal_score =
                   calculate_score(settings, l4, nstats, l4.price_history, today)]
        db1 == [db EXCEPT ![id] = l5]
    IN IF l.title = NoneStr
       THEN \* listing.title[:50] in the opening log line
            Result("raised", "TypeError", db, TRUE, "none", id, fd,
                   old_price, l.status)
       ELSE IF price_changed
       THEN IF old_price = NoneNum
            THEN \* new_price < old_price with old_price None
                 Result("raised", "TypeError", db1, TRUE, "none", id, fd,
                        old_price, l.status)
            ELSE Result(IF new_price < old_price THEN "price_drops" ELSE "updated",
                        "", db1, TRUE, "none", id, fd, old_price, l.status)
       ELSE IF description_changed
       THEN Result("updated", "", db1, TRUE, "none", id, fd, old_price, l.status)
       ELSE Result("duplicates", "", db1, TRUE, "none", id, fd, old_price, l.status)

\* the values process_single_listing derives from the raw listing
RawAddress(raw) == IF raw.address = AbsentTxt THEN <<>> ELSE raw.address
RawRooms(raw) == IF raw.rooms = AbsentNum THEN 0 ELSE raw.rooms
RawSize(raw) == IF raw.size_sqm = AbsentNum THEN 0 ELSE raw.size_sqm
RawHash(raw) == generate_property_hash(RawAddress(raw), RawRooms(raw), RawSize(raw))
RawPhone(raw) ==
    IF TruthyTxt(GetTxt(raw.contact_phone))
    THEN normalize_israeli_phone(raw.contact_phone) ELSE NoneTxt

\* process_single_listing from the property hash on (lines 73-98)
ingest_listing(db, cm, ok, nstats, raw, source, today, first) ==
    IF HashRaises(RawAddress(raw))
    THEN Result("raised", "AttributeError", db, ok, "none", 0, NoSearch, NoneNum, NoneStr)
    ELSE IF ~ok
    THEN \* any query on a session whose flush failed
         Result("raised", "PendingRollbackError", db, ok, "none", 0, NoSearch,
                NoneNum, NoneStr)
    ELSE LET fd == find_duplicate(db, RawHash(raw), source,
                                  GetStr(raw.external_id), RawPhone(raw),
                                  RawAddress(raw), first)
         IN IF fd.raises
            THEN Result("raised", "AttributeError", db, ok, "none", 0, NoSearch,
                        NoneNum, NoneStr)
            ELSE IF fd.listing # 0
            THEN update_existing_listing(db, nstats, fd.listing, fd, raw, today)
            ELSE create_new_listing(db, cm, nstats, fd, raw, RawHash(raw), today)

\* the result r reported as 'filtered' when the raw listing fails the filters
FilteredAfterwards(r, passes) ==
    IF passes \/ r.outcome = "raised" THEN r ELSE [r EXCEPT !.outcome = "filtered"]

\* variant: the filters are applied after the listing was stored (C11 must notice)
process_single_listing_filter_last(db, cm, ok, nstats, raw, source, today, first) ==
    IF raw.title = NoneStr
    THEN Result("raised", "TypeError", db, ok, "none", 0, NoSearch, NoneNum, NoneStr)
    ELSE FilteredAfterwards(ingest_listing(db, cm, ok, nstats, raw, source, today, first),
                            passes_all_filters(settings, raw))

process_single_listing(db, cm, ok, nstats, raw, source, today, first) ==
    IF raw.title = NoneStr
    THEN \* listing_data.get('title', 'N/A')[:50] on None
         Result("raised", "TypeError", db, ok, "none", 0, NoSearch, NoneNum, NoneStr)
    ELSE IF ~passes_all_filters(settings, raw)
    THEN Result("filtered", "", db, ok, "none", 0, NoSearch, NoneNum, NoneStr)
    ELSE ingest_listing(db, cm, ok, nstats, raw, source, today, first)

\* ------------------------------------------------------------------------
\* process_listings as a function of the batch: the loop over the raw
\* listings with try / except Exception: continue, then commit and return.
\* cm is the committed table the session starts from.
\* ------------------------------------------------------------------------
BatchState(db, ok, st) == [listings |-> db, session_ok |-> ok, stats |-> st]

\* stats[result] += 1, skipped when the call raised
Counted(acc, r) ==
    BatchState(r.listings, r.session_ok,
               IF r.outcome = "raised" THEN acc.stats
               ELSE [acc.stats EXCEPT ![r.outcome] = @ + 1])

\* variant: the loop ends at the first listing that raises
RECURSIVE batch_loop_break(_, _, _, _, _, _, _)
batch_loop_break(batch, idx, acc, cm, nstats, source, today) ==
    IF idx > Len(batch) THEN acc
    ELSE LET r == process_single_listing(
                      acc.listings, cm, acc.session_ok, nstats, batch[idx], source,
                      today, MinOrZero(PhoneRows(acc.listings, RawPhone(batch[idx]))))
         IN IF r.outcome = "raised" THEN Counted(acc, r)
            ELSE batch_loop_break(batch, idx + 1, Counted(acc, r), cm, nstats,
                                  source, today)

\* the query on contact_phone is taken to return the oldest row first
RECURSIVE batch_loop(_, _, _, _, _, _, _)
batch_loop(batch, idx, acc, cm, nstats, source, today) ==
    IF idx > Len(batch) THEN acc
    ELSE batch_loop(batch, idx + 1,
                    Counted(acc, process_single_listing(
                        acc.listings, cm, acc.session_ok, nstats, batch[idx], source,
                        today, MinOrZero(PhoneRows(acc.listings, RawPhone(batch[idx]))))),
                    cm, nstats, source, today)

\* self.db.commit() raises when a flush failed; nothing is committed then
Committed(acc, cm) ==
    IF acc.session_ok
    THEN [result |-> "returned", stats |-> acc.stats, committed |-> acc.listings]
    ELSE [result |-> "raised", stats |-> ZeroStats, committed |-> cm]

process_listings(batch, source, cm, nstats, today) ==
    Committed(batch_loop(batch, 1, BatchState(cm, TRUE, ZeroStats), cm, nstats,
                         source, today), cm)

\* ------------------------------------------------------------------------
\* app/core/deal_score.py: update_neighborhood_stats
\* A mean is the exact fraction num/den; a median is kept doubled.
\* ------------------------------------------------------------------------
\* Listing.price > 0, Listing.price_per_sqm > 0 (NULL compares as unknown)
QualifyingListings(db) ==
    {i \in Ids(db) : /\ db[i].price # NoneNum /\ db[i].price > 0
                     /\ db[i].price_per_sqm # NoneNum /\ db[i].price_per_sqm > 0}

StatsKey(row) == <<row.city, row.neighborhood>>

ListingGroup(db, key) == {i \in QualifyingListings(db) : StatsKey(db[i]) = key}

\* variant: two samples are enough
EnoughSamples_two(group) == ~(Cardinality(group) < 2)

\* if len(listing_group) < 3: continue
EnoughSamples(group) == ~(Cardinality(group) < 3)

RECURSIVE SumOf(_, _, _)
SumOf(db, group, field) ==
    IF group = {} THEN 0
    ELSE LET i == CHOOSE x \in group : TRUE
         IN db[i][field] + SumOf(db, group \ {i}, field)

\* the values of the field in ascending order
RECURSIVE SortedValues(_, _, _)
SortedValues(db, group, field) ==
    IF group = {} THEN <<>>
    ELSE LET i == CHOOSE x \in group : \A y \in group : db[x][field] <= db[y][field]
         IN <<db[i][field]>> \o SortedValues(db, group \ {i}, field)

\* statistics.median, doubled
MedianTwice(sorted) ==
    LET n == Len(sorted)
    IN IF n % 2 = 1 THEN 2 * sorted[(n + 1) \div 2]
       ELSE sorted[n \div 2] + sorted[n \div 2 + 1]

StatsValues(row, db, group, today) ==
    [ row EXCEPT
        !.avg_price_num = SumOf(db, group, "price"),
        !.avg_price_den = Cardinality(group),
        !.avg_ppsqm_num = SumOf(db, group, "price_per_sqm"),
        !.avg_ppsqm_den = Cardinality(group),
        !.median_price2 = MedianTwice(SortedValues(db, group, "price")),
        !.median_ppsqm2 = MedianTwice(SortedValues(db, group, "price_per_sqm")),
        !.sample_size = Cardinality(group),
        !.last_updated = today ]

NewStatsRow(key) ==
    [ city |-> key[1], neighborhood |-> key[2], avg_price_num |-> 0,
      avg_price_den |-> 1, avg_ppsqm_num |-> 0, avg_ppsqm_den |-> 1,
      median_price2 |-> 0, median_ppsqm2 |-> 0, sample_size |-> 0,
      last_updated |-> 0 ]

\* get or create the stats record of the group, then update it
UpsertStats(ns, db, key, today) ==
    LET existing == {st \in ns : StatsKey(st) = key}
    IN IF existing = {}
       THEN ns \cup {StatsValues(NewStatsRow(key), db, ListingGroup(db, key), today)}
       ELSE LET first == CHOOSE st \in existing : TRUE
            IN (ns \ {first})
               \cup {StatsValues(first, db, ListingGroup(db, key), today)}

RECURSIVE UpsertAll(_, _, _, _)
UpsertAll(ns, db, keys, today) ==
    IF keys = {} THEN ns
    ELSE LET key == CHOOSE k \in keys : TRUE
         IN UpsertAll(UpsertStats(ns, db, key, today), db, keys \ {key}, today)

StatsAfterUpdate(ns, db, today) ==
    UpsertAll(ns, db,
              {StatsKey(db[i]) : i \in {j \in QualifyingListings(db) :
                                          EnoughSamples(ListingGroup(db, StatsKey(db[j])))}},
              today)

\* ------------------------------------------------------------------------
\* Initial state and actions
\* ------------------------------------------------------------------------
\* the processor after construction, on an empty database
Idle ==
    /\ listings = <<>>
    /\ committed = <<>>
    /\ neighborhood_stats = {}
    /\ session_ok = TRUE
    /\ pc = "idle"
    /\ batch_source = "yad2"
    /\ stats = ZeroStats
    /\ processed = 0
    /\ batch_result = "none"
    /\ call = NoCall
    /\ now = 0
    /\ ncalls = 0
    /\ sessions = NoSessions
    /\ notifications = <<>>
    /\ delivered = <<>>
    /\ notifier = NoNotifier
    /\ retrying = NoRetry
    /\ shutdown_event = "None"
    /\ scraping_state = NoScrapingState
    /\ captcha_state = NormalState
    /\ handlers = NoHandlers
    /\ clock = 0

Init ==
    /\ Idle
    /\ probe = NoProbe

\* a function applied on its own leaves the processor alone
Applied ==
    UNCHANGED <<listings, committed, neighborhood_stats, session_ok, pc, batch_source,
                stats, processed, batch_result, call, now, ncalls, others>>

\* process_listings is entered on a fresh session: stats = zeros
BeginBatch(source) ==
    /\ pc = "idle"
    /\ ncalls < MaxCalls
    /\ pc' = "batch"
    /\ batch_source' = source
    /\ stats' = ZeroStats
    /\ processed' = 0
    /\ session_ok' = TRUE
    /\ batch_result' = "none"
    /\ call' = NoCall
    /\ UNCHANGED <<listings, committed, neighborhood_stats, now, ncalls, probe, others>>

\* one iteration of the loop of process_listings: process_single_listing
\* inside try / except Exception: continue
\* r is what process_single_listing did: stats[result] += 1 unless it raised
Continue(raw, r) ==
    /\ listings' = r.listings
    /\ session_ok' = r.session_ok
    /\ stats' = IF r.outcome = "raised" THEN stats
                ELSE [stats EXCEPT ![r.outcome] = @ + 1]
    /\ call' = [ kind |-> "process", raw |-> raw, source |-> batch_source,
                 outcome |-> r.outcome, error |-> r.error,
                 integrity |-> r.integrity, listing |-> r.listing,
                 searched |-> r.searched, found |-> r.found,
                 method |-> r.method, similarity |-> r.similarity,
                 consulted |-> r.consulted,
                 old_price |-> r.old_price, old_status |-> r.old_status ]

ProcessListing(raw) ==
    /\ pc = "batch"
    /\ ncalls < MaxCalls
    /\ \E first \in PhoneFirstChoices(listings, RawPhone(raw)) :
         Continue(raw, process_single_listing(listings, committed, session_ok,
                                              neighborhood_stats, raw, batch_source,
                                              now, first))
    /\ processed' = processed + 1
    /\ ncalls' = ncalls + 1
    /\ UNCHANGED <<committed, neighborhood_stats, pc, batch_source, batch_result, now,
                   probe, others>>

\* the end of process_listings: db.commit() and return stats; the commit
\* raises when a flush failed in this session
EndBatch ==
    /\ pc = "batch"
    /\ pc' = "idle"
    /\ IF session_ok
       THEN /\ committed' = listings
            /\ batch_result' = "returned"
       ELSE /\ committed' = committed
            /\ batch_result' = "raised"
    /\ call' = NoCall
    /\ UNCHANGED <<listings, neighborhood_stats, session_ok, batch_source, stats,
                   processed, now, ncalls, probe, others>>

\* app/services/dashboard.py: POST /api/listing/{id}/status
update_listing_status(id, status, note) ==
    /\ pc = "idle"
    /\ id \in Ids(committed)
    /\ status \in Statuses
    /\ LET row == [committed[id] EXCEPT
                      !.status = status,
                      !.user_note = IF TruthyStr(note) THEN note ELSE @]
       IN /\ committed' = [committed EXCEPT ![id] = row]
          /\ listings' = [committed EXCEPT ![id] = row]
    /\ call' = NoCall
    /\ UNCHANGED <<neighborhood_stats, session_ok, pc, batch_source, stats,
                   processed, batch_result, now, ncalls, probe, others>>

\* time passes between two scrape jobs (datetime.utcnow() advances)
Tick ==
    /\ pc = "idle"
    /\ now < MaxDay
    /\ now' = now + 1
    /\ call' = NoCall
    /\ UNCHANGED <<listings, committed, neighborhood_stats, session_ok, pc,
                   batch_source, stats, processed, batch_result, ncalls, probe, others>>

\* app/services/scheduler.py: update_stats, a job of its own with its own
\* session: it reads the committed listings
update_neighborhood_stats ==
    /\ pc = "idle"
    /\ neighborhood_stats' = StatsAfterUpdate(neighborhood_stats, committed, now)
    /\ call' = [kind |-> "stats"]
    /\ UNCHANGED <<listings, committed, session_ok, pc, batch_source, stats,
                   processed, batch_result, now, ncalls, probe, others>>

\* batches of raw listings that differ in their identity fields
NextIdentity ==
    \/ \E source \in Sources : BeginBatch(source)
    \/ \E raw \in IdentityCorpus : ProcessListing(raw)
    \/ EndBatch

SpecIdentity == Init /\ [][NextIdentity]_vars

\* batches of raw listings of one property, and the dashboard
NextUpdate ==
    \/ BeginBatch("yad2")
    \/ \E raw \in UpdateCorpus : ProcessListing(raw)
    \/ EndBatch
    \/ \E id \in 1..1, status \in {"not_interested", "interested"} :
           update_listing_status(id, status, NoneStr)

SpecUpdate == Init /\ [][NextUpdate]_vars

Spec == SpecUpdate

\* batches of well-formed, filtered and malformed raw listings, days apart
NextIngest ==
    \/ BeginBatch("yad2")
    \/ \E raw \in IngestCorpus : ProcessListing(raw)
    \/ EndBatch
    \/ Tick

SpecIngest == Init /\ [][NextIngest]_vars

\* raw listings of one property at three prices, with and without a new
\* description
StatusCorpus ==
    { [BaseRaw EXCEPT !.description = d, !.price = p] :
        d \in {AbsentStr, "d1"}, p \in {2910000, 2940000, 3000000} }

\* batches of raw listings of one property, and the dashboard setting every
\* status and a note
NextStatus ==
    \/ BeginBatch("yad2")
    \/ \E raw \in StatusCorpus : ProcessListing(raw)
    \/ EndBatch
    \/ \E id \in 1..1, status \in Statuses, note \in {NoneStr, "n1"} :
           update_listing_status(id, status, note)

SpecStatus == Init /\ [][NextStatus]_vars

\* scrape jobs and the statistics job
NextStats ==
    \/ BeginBatch("yad2")
    \/ \E raw \in StatsCorpus : ProcessListing(raw)
    \/ EndBatch
    \/ update_neighborhood_stats

SpecStats == Init /\ [][NextStats]_vars

\* scrape jobs over listings that differ in their amenities
NextAmenity ==
    \/ BeginBatch("yad2")
    \/ \E raw \in AmenityCorpus : ProcessListing(raw)
    \/ EndBatch

SpecAmenity == Init /\ [][NextAmenity]_vars

\* ------------------------------------------------------------------------
\* process_listings applied to a batch and to a permutation of the batch
\* ------------------------------------------------------------------------
Batches == UNION {[1..n -> PermuteCorpus] : n \in 2..MaxBatch}

Orders(n) == {f \in [1..n -> 1..n] : \A i, j \in 1..n : f[i] = f[j] => i = j}

Permuted(batch, order) == [i \in 1..Len(batch) |-> batch[order[i]]]

\* the stores a batch starts from: empty, or one listing already stored
Stores == {<<>>, process_listings(<<BaseRaw>>, "yad2", <<>>, {}, 0).committed}

InitPermute ==
    /\ Idle
    /\ \E b \in Batches, st \in Stores :
         \E o \in Orders(Len(b)) :
            probe = [kind |-> "batch", batch |-> b, order |-> o, store |-> st]

RunBothOrders ==
    /\ probe.kind = "batch"
    /\ probe' = [kind |-> "permuted", batch |-> probe.batch, order |-> probe.order,
                 store |-> probe.store,
                 given |-> process_listings(probe.batch, "yad2", probe.store, {}, 0),
                 permuted |-> process_listings(Permuted(probe.batch, probe.order),
                                               "yad2", probe.store, {}, 0)]
    /\ Applied

SpecPermute == InitPermute /\ [][RunBothOrders]_vars

\* ------------------------------------------------------------------------
\* passes_all_filters applied to a raw listing under a configuration
\* ------------------------------------------------------------------------
FilterSettings ==
    { [settings EXCEPT !.max_price = mp, !.min_rooms = mr, !.min_size_sqm = ms,
                       !.require_elevator_above_floor = ef,
                       !.require_parking = rp, !.require_mamad = rm] :
        mp \in {2900000, max_price}, mr \in {min_rooms, 30}, ms \in {min_size_sqm, 100},
        ef \in 0..3, rp \in BOOLEAN, rm \in BOOLEAN }

FilterCorpus ==
    { [BaseRaw EXCEPT !.price = p, !.rooms = r, !.size_sqm = sz, !.floor = f,
                      !.has_elevator = he, !.has_parking = hp, !.has_mamad = hm,
                      !.city = c] :
        p \in {AbsentNum, 2950000}, r \in {AbsentNum, 28}, sz \in {AbsentNum, 80},
        f \in {AbsentNum, 1, 3}, he \in {AbsentStr, "True", "False"},
        hp \in {AbsentStr, "True"}, hm \in {AbsentStr, "True"},
        c \in {AbsentStr, "ramat gan"} }

InitFilter ==
    /\ Idle
    /\ \E s \in FilterSettings, raw \in FilterCorpus :
         probe = [kind |-> "filter", settings |-> s, raw |-> raw]

ApplyFilter ==
    /\ probe.kind = "filter"
    /\ probe' = [kind |-> "filtered", settings |-> probe.settings, raw |-> probe.raw,
                 passes |-> passes_all_filters(probe.settings, probe.raw)]
    /\ Applied

SpecFilter == InitFilter /\ [][ApplyFilter]_vars

\* ------------------------------------------------------------------------
\* calculate_score applied to a listing, the neighborhood statistics and a
\* price history
\* ------------------------------------------------------------------------
\* the weights are configurable: the declared ones, and a price weight that
\* brings their sum to 120
ScoreSettings ==
    {[settings EXCEPT !.deal_score_weight_price = w] : w \in {deal_score_weight_price, 60}}

ScoreListings ==
    { [NewListing(BaseRaw, RawHash(BaseRaw), 0) EXCEPT
          !.price_per_sqm = pps, !.has_parking = flag, !.has_balcony = flag,
          !.has_elevator = flag, !.has_mamad = flag, !.floor = fl[1],
          !.total_floors = fl[2], !.first_seen = fs, !.neighborhood = "center"] :
        pps \in {NoneNum, 20000, 30000}, flag \in {NoneStr, "True"},
        fl \in {<<NoneNum, NoneNum>>, <<3, 4>>}, fs \in {NoneNum, 0} }

ScoreStats ==
    { {}, {[city |-> "ramat gan", neighborhood |-> "center",
            avg_ppsqm_num |-> 30000, avg_ppsqm_den |-> 1]} }

ScoreHistories ==
    { <<>>,
      <<[price |-> 3000000, price_per_sqm |-> 30000, timestamp |-> 0],
        [price |-> 2700000, price_per_sqm |-> 27000, timestamp |-> 1]>>,
      <<[price |-> 3000000, price_per_sqm |-> 30000, timestamp |-> 0],
        [price |-> 3100000, price_per_sqm |-> 31000, timestamp |-> 1]>> }

ScoreDays == {1, 30}

InitScore ==
    /\ Idle
    /\ \E s \in ScoreSettings, l \in ScoreListings, ns \in ScoreStats,
          h \in ScoreHistories, d \in ScoreDays :
         probe = [kind |-> "score", settings |-> s, listing |-> l, nstats |-> ns,
                  history |-> h, today |-> d]

ApplyScore ==
    /\ probe.kind = "score"
    /\ probe' = [kind |-> "scored", settings |-> probe.settings,
                 listing |-> probe.listing, nstats |-> probe.nstats,
                 history |-> probe.history, today |-> probe.today,
                 score |-> calculate_score(probe.settings, probe.listing, probe.nstats,
                                           probe.history, probe.today)]
    /\ Applied

SpecScore == InitScore /\ [][ApplyScore]_vars

\* ------------------------------------------------------------------------
\* generate_property_hash applied to two (address, rooms, size) triples
\* ------------------------------------------------------------------------
\* spellings of one address: as scraped, lower case, padded with whitespace,
\* with a tab between street and number; and another address
HashTexts ==
    { A1,
      Lower(A1),
      <<" ">> \o A1 \o <<"\n">>,
      [A1 EXCEPT ![6] = "\t"],
      A2 }

InitHash ==
    /\ Idle
    /\ \E a1 \in HashTexts, a2 \in HashTexts, r1 \in {30, 35}, r2 \in {30, 35},
          s1 \in {90, 100}, s2 \in {90, 100} :
         probe = [kind |-> "hash", address1 |-> a1, rooms1 |-> r1, size1 |-> s1,
                  address2 |-> a2, rooms2 |-> r2, size2 |-> s2]

ApplyHash ==
    /\ probe.kind = "hash"
    /\ probe' = [kind |-> "hashed", address1 |-> probe.address1,
                 rooms1 |-> probe.rooms1, size1 |-> probe.size1,
                 address2 |-> probe.address2, rooms2 |-> probe.rooms2,
                 size2 |-> probe.size2,
                 hash1 |-> generate_property_hash(probe.address1, probe.rooms1,
                                                  probe.size1),
                 hash2 |-> generate_property_hash(probe.address2, probe.rooms2,
                                                  probe.size2)]
    /\ Applied

SpecHash == InitHash /\ [][ApplyHash]_vars

\* ------------------------------------------------------------------------
\* normalize_israeli_phone applied to two spellings of one number, and the
\* phone strategy between a listing stored under the first spelling and a
\* raw listing that carries the second
\* ------------------------------------------------------------------------
\* valid numbers in local form: two mobile numbers and a landline
LocalNumbers ==
    { <<"0","5","0","1","2","3","4","5","6","7">>,
      <<"0","5","2","9","8","7","6","5","4","3">>,
      <<"0","3","1","2","3","4","5","6","7">> }

CountryPrefixes == {"0", "972", "+972"}
SeparatorStyles == {"none", "-", " ", ".", "()"}

\* the digits after the leading 0: area code, then 3 + 4 digits
AreaCode(local) == SubSeq(local, 2, Len(local) - 7)
Subscriber(local) == SubSeq(local, Len(local) - 6, Len(local))

\* the number up to the area code
Lead(local, prefix, sep) ==
    LET gap == IF sep \in {"none", "()"} THEN <<>> ELSE <<sep>>
    IN CASE prefix = "0" -> <<"0">> \o AreaCode(local)
         [] prefix = "972" -> <<"9", "7", "2">> \o gap \o AreaCode(local)
         [] prefix = "+972" -> <<"+", "9", "7", "2">> \o gap \o AreaCode(local)

Spelling(local, prefix, sep) ==
    LET lead == Lead(local, prefix, sep)
        s3 == SubSeq(Subscriber(local), 1, 3)
        s4 == SubSeq(Subscriber(local), 4, 7)
    IN CASE sep = "none" -> lead \o s3 \o s4
         [] sep = "()" -> <<"(">> \o lead \o <<")", " ">> \o s3 \o <<"-">> \o s4
         [] OTHER -> lead \o <<sep>> \o s3 \o <<sep>> \o s4

\* the database after a listing with this phone was created at address A2
StoredWithPhone(phone) ==
    <<NewListing([BaseRaw EXCEPT !.address = A2, !.contact_phone = phone],
                 generate_property_hash(A2, BaseRaw.rooms, BaseRaw.size_sqm), 0)>>

InitPhone ==
    /\ Idle
    /\ \E n \in LocalNumbers, p1 \in CountryPrefixes, p2 \in CountryPrefixes,
          s1 \in SeparatorStyles, s2 \in SeparatorStyles :
         probe = [kind |-> "phone", local |-> n,
                  stored_as |-> Spelling(n, p1, s1), raw_as |-> Spelling(n, p2, s2)]

ApplyPhone ==
    /\ probe.kind = "phone"
    /\ probe' = [kind |-> "normalized", local |-> probe.local,
                 stored_as |-> probe.stored_as, raw_as |-> probe.raw_as,
                 stored |-> normalize_israeli_phone(probe.stored_as),
                 raw |-> normalize_israeli_phone(probe.raw_as),
                 found |-> find_by_phone_fuzzy(
                               StoredWithPhone(probe.stored_as),
                               normalize_israeli_phone(probe.raw_as), A3,
                               MinOrZero(PhoneRows(StoredWithPhone(probe.stored_as),
                                                   normalize_israeli_phone(probe.raw_as)))
                           ).listing]
    /\ Applied

SpecPhone == InitPhone /\ [][ApplyPhone]_vars

\* ------------------------------------------------------------------------
\* normalize_israeli_phone applied to any input: None, empty, no digits,
\* and spellings with digits missing at the end or appended
\* ------------------------------------------------------------------------
ExtraDigits == -3..3

Resized(text, k) ==
    IF k < 0 THEN SubSeq(text, 1, Len(text) + k)
    ELSE text \o [i \in 1..k |-> "9"]

PhoneInputs ==
    {NoneTxt, <<>>, <<"i", "n", "v", "a", "l", "i", "d">>, <<"-", " ", "(", ")">>}
    \cup { Resized(Spelling(n, p, s), k) :
             n \in LocalNumbers, p \in CountryPrefixes, s \in SeparatorStyles,
             k \in ExtraDigits }

InitPhoneInput ==
    /\ Idle
    /\ \E phone \in PhoneInputs : probe = [kind |-> "phone_input", phone |-> phone]

ApplyPhoneInput ==
    /\ probe.kind = "phone_input"
    /\ probe' = [kind |-> "phone_output", phone |-> probe.phone,
                 result |-> normalize_israeli_phone(probe.phone)]
    /\ Applied

SpecPhoneInput == InitPhoneInput /\ [][ApplyPhoneInput]_vars

\* ------------------------------------------------------------------------
\* Two batches side by side, each in a session of its own on the one
\* storage.  A session sees the rows committed when its batch began and its
\* own changes; the unique index on property_hash is checked by the storage
\* at the INSERT.
\* ------------------------------------------------------------------------
RaceBatches ==
    { <<BaseRaw>>,
      <<BaseRaw, [BaseRaw EXCEPT !.address = A2]>>,
      <<[BaseRaw EXCEPT !.address = A2], BaseRaw>>,
      <<[BaseRaw EXCEPT !.address = A3], BaseRaw>> }

\* scrape_*: db = self.SessionLocal(); process_listings(listings, source)
SessionBegin(s, batch) ==
    /\ sessions[s].pc = "idle"
    /\ sessions' = [sessions EXCEPT ![s] =
                       [IdleSession EXCEPT !.pc = "batch", !.batch = batch,
                                           !.view = committed,
                                           !.base = Len(committed)]]
    /\ UNCHANGED <<listings, committed, neighborhood_stats, session_ok, pc,
                   batch_source, stats, processed, batch_result, call, now, ncalls,
                   probe, notify_vars, scraper_vars, captcha_vars>>

\* hashes of the rows a session has inserted and not yet committed
PendingHashes(ss) ==
    IF ss.pc = "batch" /\ ss.session_ok
    THEN {ss.view[i].property_hash : i \in (ss.base + 1)..Len(ss.view)}
    ELSE {}

\* hashes the storage holds that the session does not see
UnseenHashes(s) ==
    {committed[i].property_hash : i \in (sessions[s].base + 1)..Len(committed)}
    \cup UNION {PendingHashes(sessions[t]) : t \in SessionIds \ {s}}

\* the flush of an INSERT the storage rejects (IntegrityError, or
\* OperationalError when the other writer still holds the lock): the
\* transaction is rolled back and the session is left inactive
Rejected(ss) ==
    [ss EXCEPT !.view = committed, !.base = Len(committed), !.session_ok = FALSE,
               !.rejected = ss.idx, !.idx = @ + 1]

Proceeded(ss, r) ==
    [ss EXCEPT !.view = r.listings, !.session_ok = r.session_ok,
               !.stats = IF r.outcome = "raised" THEN @
                         ELSE [@ EXCEPT ![r.outcome] = @ + 1],
               !.idx = @ + 1]

SessionAfter(s, ss, r) ==
    IF /\ Len(r.listings) > Len(ss.view)
       /\ r.listings[Len(r.listings)].property_hash \in UnseenHashes(s)
    THEN Rejected(ss)
    ELSE Proceeded(ss, r)

\* one turn of the loop of process_listings in session s
SessionProcess(s) ==
    /\ sessions[s].pc = "batch"
    /\ sessions[s].idx <= Len(sessions[s].batch)
    /\ sessions' = [sessions EXCEPT ![s] =
           SessionAfter(s, sessions[s],
                        process_single_listing(
                            sessions[s].view, committed, sessions[s].session_ok,
                            neighborhood_stats, sessions[s].batch[sessions[s].idx],
                            "yad2", now, 0))]
    /\ UNCHANGED <<listings, committed, neighborhood_stats, session_ok, pc,
                   batch_source, stats, processed, batch_result, call, now, ncalls,
                   probe, notify_vars, scraper_vars, captcha_vars>>

\* the rows of the session written over the storage
Merged(ss) ==
    [i \in 1..Len(committed) |-> IF i <= ss.base THEN ss.view[i] ELSE committed[i]]
    \o SubSeq(ss.view, ss.base + 1, Len(ss.view))

\* self.db.commit(); return stats
SessionEnd(s) ==
    /\ sessions[s].pc = "batch"
    /\ sessions[s].idx > Len(sessions[s].batch)
    /\ IF sessions[s].session_ok
       THEN /\ committed' = Merged(sessions[s])
            /\ sessions' = [sessions EXCEPT ![s].pc = "done", ![s].result = "returned"]
       ELSE /\ committed' = committed
            /\ sessions' = [sessions EXCEPT ![s].pc = "done", ![s].result = "raised"]
    /\ UNCHANGED <<listings, neighborhood_stats, session_ok, pc, batch_source, stats,
                   processed, batch_result, call, now, ncalls, probe, notify_vars, scraper_vars, captcha_vars>>

NextRace ==
    \/ \E s \in SessionIds, batch \in RaceBatches : SessionBegin(s, batch)
    \/ \E s \in SessionIds : SessionProcess(s)
    \/ \E s \in SessionIds : SessionEnd(s)

SpecRace == Init /\ [][NextRace]_vars

\* ---------------------------------------------------------------------------
\* telegram_notifier.py: TelegramNotifier, called by the notification passes
\* of the scrape jobs
\* ---------------------------------------------------------------------------

\* settings.is_telegram_enabled(): bot token and chat id are configured
is_telegram_enabled == TRUE

\* settings.high_priority_neighborhoods, transliterated
high_priority_neighborhoods == {"ramat aviv", "bavli"}

NotificationTypes == {"new_listing", "price_drop", "high_score"}

\* the most notifications the table holds in the model
MaxNotifications == 2

NonePct == [num |-> 0, den |-> 0]

\* deal_score.py: get_price_drop_percentage, the percentage as the fraction
\* num / den; the rows of price_history are in timestamp order
get_price_drop_percentage(l) ==
    LET hist == l.price_history
    IN IF Len(hist) < 2 THEN NonePct
       ELSE LET current_price == hist[Len(hist)].price
                previous_price == hist[Len(hist) - 1].price
            IN IF ~TruthyNum(current_price) \/ ~TruthyNum(previous_price)
                  \/ previous_price <= 0
               THEN NonePct
               ELSE [num |-> (previous_price - current_price) * 100,
                     den |-> previous_price]

\* not price_drop_pct or price_drop_pct < settings.min_price_drop_percent_notify
PriceDropTooSmall(pct) ==
    \/ pct = NonePct
    \/ pct.num = 0
    \/ pct.num < min_price_drop_percent_notify * pct.den

HighScore(l) == l.deal_score.num >= min_deal_score_notify * l.deal_score.den

_should_notify(l, notification_type) ==
    IF l.status = "not_interested" THEN FALSE
    ELSE IF l.status = "contacted" THEN FALSE
    ELSE IF notification_type = "new_listing"
    THEN IF HighScore(l) THEN TRUE
         ELSE IF TruthyStr(l.neighborhood)
                 /\ l.neighborhood \in high_priority_neighborhoods
         THEN TRUE
         ELSE FALSE
    ELSE TRUE

_already_notified(table, id, notification_type) ==
    \E i \in DOMAIN table : /\ table[i].listing_id = id
                            /\ table[i].notification_type = notification_type

\* a price_drop notification of the listing within the last 24 hours
recent_notification(table, id, today) ==
    \E i \in DOMAIN table : /\ table[i].listing_id = id
                            /\ table[i].notification_type = "price_drop"
                            /\ table[i].sent_at > today - 1

\* the part of notify_new_listing / notify_price_drop / notify_high_score
\* before "await self._send_message(message)": TRUE when the message is sent
Notifies(table, l, id, notification_type, today) ==
    IF ~is_telegram_enabled THEN FALSE
    ELSE IF notification_type = "new_listing"
    THEN _should_notify(l, "new_listing")
         /\ ~_already_notified(table, id, "new_listing")
    ELSE IF notification_type = "price_drop"
    THEN ~PriceDropTooSmall(get_price_drop_percentage(l))
         /\ ~recent_notification(table, id, today)
    ELSE ~(l.deal_score.num < min_deal_score_notify * l.deal_score.den)
         /\ ~_already_notified(table, id, "high_score")

\* pass j calls notify_<notification_type>(listing) and runs up to the await
\* of the send, or returns False before it
notify(j, id, notification_type) ==
    /\ notifier[j].pc = "idle"
    /\ id \in Ids(committed)
    /\ Len(notifications) < MaxNotifications
    /\ notifier' = [notifier EXCEPT ![j] =
           IF Notifies(notifications, committed[id], id, notification_type, now)
           THEN [pc |-> "sending", listing_id |-> id,
                 notification_type |-> notification_type,
                 status |-> committed[id].status, returned |-> "none"]
           ELSE [NoNotification EXCEPT !.returned = "False"]]
    /\ UNCHANGED <<listings, committed, neighborhood_stats, session_ok, pc,
                   batch_source, stats, processed, batch_result, call, now, ncalls,
                   probe, sessions, notifications, delivered, scraper_vars, captcha_vars>>

\* the awaited _send_message of pass j ends: on success the notification is
\* recorded and committed (_record_notification), then the call returns
send_message(j, success) ==
    /\ notifier[j].pc = "sending"
    /\ notifier' = [notifier EXCEPT ![j] =
           [NoNotification EXCEPT !.returned = IF success THEN "True" ELSE "False"]]
    /\ IF success
       THEN /\ delivered' = Append(delivered,
                                [listing_id |-> notifier[j].listing_id,
                                 notification_type |-> notifier[j].notification_type])
            /\ notifications' = Append(notifications,
                                [listing_id |-> notifier[j].listing_id,
                                 notification_type |-> notifier[j].notification_type,
                                 sent_at |-> now])
       ELSE UNCHANGED <<delivered, notifications>>
    /\ UNCHANGED <<listings, committed, neighborhood_stats, session_ok, pc,
                   batch_source, stats, processed, batch_result, call, now, ncalls,
                   probe, sessions, scraper_vars, captcha_vars>>

\* the storage after three listings of one neighborhood were scraped, the
\* statistics job ran, and a second scrape found the first listing much
\* cheaper and a listing in a high-priority neighborhood
NotifyFirstBatch ==
    << [BaseRaw EXCEPT !.neighborhood = "center", !.price_per_sqm = 30000,
                       !.has_elevator = "True", !.has_parking = "True",
                       !.has_balcony = "True"],
       [BaseRaw EXCEPT !.neighborhood = "center", !.address = A2, !.price = 2800000,
                       !.price_per_sqm = 28000],
       [BaseRaw EXCEPT !.neighborhood = "center", !.address = A3, !.price = 2700000,
                       !.price_per_sqm = 27000] >>

NotifySecondBatch ==
    << [BaseRaw EXCEPT !.neighborhood = "center", !.price = 1900000,
                       !.price_per_sqm = 19000,
                       !.has_elevator = "True", !.has_parking = "True",
                       !.has_balcony = "True"],
       [BaseRaw EXCEPT !.neighborhood = "bavli", !.address = A2, !.rooms = 35] >>

\* the listings the notification passes are called with
NotifyIds == {1, 4}

InitNotify ==
    \E first \in {process_listings(NotifyFirstBatch, "yad2", <<>>, {}, 0).committed} :
    \E nstats \in {StatsAfterUpdate({}, first, 0)} :
    \E second \in {process_listings(NotifySecondBatch, "yad2", first, nstats, 0).committed} :
        /\ listings = second
        /\ committed = second
        /\ neighborhood_stats = nstats
        /\ session_ok = TRUE
        /\ pc = "idle"
        /\ batch_source = "yad2"
        /\ stats = ZeroStats
        /\ processed = 0
        /\ batch_result = "none"
        /\ call = NoCall
        /\ now = 0
        /\ ncalls = 0
        /\ sessions = NoSessions
        /\ notifications = <<>>
        /\ delivered = <<>>
        /\ notifier = NoNotifier
        /\ retrying = NoRetry
        /\ shutdown_event = "None"
        /\ scraping_state = NoScrapingState
        /\ captcha_state = NormalState
        /\ handlers = NoHandlers
        /\ clock = 0
        /\ probe = NoProbe

NextNotify ==
    \/ \E j \in Passes, id \in NotifyIds, t \in NotificationTypes : notify(j, id, t)
    \/ \E j \in Passes, success \in BOOLEAN : send_message(j, success)
    \/ \E id \in NotifyIds, status \in Statuses : update_listing_status(id, status, "")

SpecNotify == InitNotify /\ [][NextNotify]_vars

\* ---------------------------------------------------------------------------
\* app/scrapers/base_scraper.py: ScraperWithRetry.scrape_with_retry, with the
\* shutdown event set from another thread
\* ---------------------------------------------------------------------------

\* the largest max_retries and retry_delay (seconds) a wrapper is built with
MaxRetries == 3
MaxDelay == 2

\* what scraper.scrape() may return
ScrapedLists == {<<>>, <<"l1">>, <<"l1", "l2">>}

\* how initialize() then scrape() may end
Outcomes == {"ok", "error", "disconnected"}

\* self.shutdown_event and self.shutdown_event.is_set()
ShutdownIsSet == shutdown_event = "set"

\* BaseScraper.update_scraping_state
update_scraping_state(row, success, error_msg) ==
    IF success
    THEN [status |-> "active", error_count |-> 0, error_message |-> "<None>"]
    ELSE [status |-> "error", error_count |-> row.error_count + 1,
          error_message |-> error_msg]

Returned(r, result) == [r EXCEPT !.pc = "done", !.result = result]

InitRetry ==
    /\ Idle
    /\ probe = NoProbe

\* scrape_with_retry() is called on a wrapper built with these arguments
scrape_with_retry(max_retries, retry_delay, event) ==
    /\ retrying.pc = "idle"
    /\ retrying' = [NoRetry EXCEPT !.pc = "loop", !.max_retries = max_retries,
                                   !.retry_delay = retry_delay]
    /\ shutdown_event' = event
    /\ UNCHANGED <<listings, committed, neighborhood_stats, session_ok, pc,
                   batch_source, stats, processed, batch_result, call, now, ncalls,
                   probe, sessions, notify_vars, scraping_state>>
    /\ UNCHANGED captcha_vars

\* variant: the loop starts the next attempt without looking at the event
LoopTop_unchecked ==
    /\ retrying.pc = "loop"
    /\ IF retrying.attempt = retrying.max_retries
       THEN /\ retrying' = Returned(retrying, <<>>)
            /\ scraping_state' =
                   update_scraping_state(scraping_state, FALSE, "Failed after")
       ELSE /\ retrying' = [retrying EXCEPT !.pc = "attempt"]
            /\ UNCHANGED scraping_state
    /\ UNCHANGED <<listings, committed, neighborhood_stats, session_ok, pc,
                   batch_source, stats, processed, batch_result, call, now, ncalls,
                   probe, sessions, notify_vars, shutdown_event>>
    /\ UNCHANGED captcha_vars

\* the head of "for attempt in range(self.max_retries)": the loop is
\* exhausted (all retries failed), or the shutdown check returns [], or the
\* attempt starts
LoopTop ==
    /\ retrying.pc = "loop"
    /\ IF retrying.attempt = retrying.max_retries
       THEN /\ retrying' = Returned(retrying, <<>>)
            /\ scraping_state' =
                   update_scraping_state(scraping_state, FALSE, "Failed after")
       ELSE IF ShutdownIsSet
       THEN /\ retrying' = Returned(retrying, <<>>)
            /\ UNCHANGED scraping_state
       ELSE /\ retrying' = [retrying EXCEPT !.pc = "attempt"]
            /\ UNCHANGED scraping_state
    /\ UNCHANGED <<listings, committed, neighborhood_stats, session_ok, pc,
                   batch_source, stats, processed, batch_result, call, now, ncalls,
                   probe, sessions, notify_vars, shutdown_event>>
    /\ UNCHANGED captcha_vars

\* initialize() then scrape() end: with listings, with an exception, or with
\* an exception that _check_browser_connection takes for a disconnection
AttemptEnds(outcome, scraped) ==
    /\ retrying.pc = "attempt"
    /\ LET r == [retrying EXCEPT !.outcomes =
                     Append(@, [outcome |-> outcome,
                                listings |-> IF outcome = "ok" THEN scraped ELSE <<>>])]
       IN IF outcome = "ok"
          THEN /\ retrying' = Returned(r, scraped)
               /\ scraping_state' = update_scraping_state(scraping_state, TRUE, "<None>")
          ELSE IF outcome = "disconnected"
          THEN /\ retrying' = Returned(r, <<>>)
               /\ scraping_state' =
                      update_scraping_state(scraping_state, FALSE, "Browser connection lost")
          ELSE /\ UNCHANGED scraping_state
               /\ IF r.attempt < r.max_retries - 1
                  THEN IF ShutdownIsSet
                       THEN retrying' = Returned(r, <<>>)
                       ELSE retrying' = [r EXCEPT !.pc = "delay", !.waited = 0]
                  ELSE retrying' = [r EXCEPT !.pc = "loop", !.attempt = @ + 1]
    /\ UNCHANGED <<listings, committed, neighborhood_stats, session_ok, pc,
                   batch_source, stats, processed, batch_result, call, now, ncalls,
                   probe, sessions, notify_vars, shutdown_event>>
    /\ UNCHANGED captcha_vars

\* one round of "for _ in range(self.retry_delay)": the delay is over, or
\* the shutdown check returns [], or one second is slept
RetryDelay ==
    /\ retrying.pc = "delay"
    /\ IF retrying.waited = retrying.retry_delay
       THEN retrying' = [retrying EXCEPT !.pc = "loop", !.attempt = @ + 1]
       ELSE IF ShutdownIsSet
       THEN retrying' = Returned(retrying, <<>>)
       ELSE retrying' = [retrying EXCEPT !.waited = @ + 1]
    /\ UNCHANGED <<listings, committed, neighborhood_stats, session_ok, pc,
                   batch_source, stats, processed, batch_result, call, now, ncalls,
                   probe, sessions, notify_vars, shutdown_event, scraping_state>>
    /\ UNCHANGED captcha_vars

\* another thread sets the shutdown event
set_shutdown ==
    /\ shutdown_event = "clear"
    /\ retrying.pc # "idle"
    /\ shutdown_event' = "set"
    /\ UNCHANGED <<listings, committed, neighborhood_stats, session_ok, pc,
                   batch_source, stats, processed, batch_result, call, now, ncalls,
                   probe, sessions, notify_vars, retrying, scraping_state>>
    /\ UNCHANGED captcha_vars

\* the steps of the thread that runs scrape_with_retry
RetryStep ==
    \/ LoopTop
    \/ \E outcome \in Outcomes, scraped \in ScrapedLists : AttemptEnds(outcome, scraped)
    \/ RetryDelay

NextRetry ==
    \/ \E max_retries \in 1..MaxRetries, retry_delay \in 0..MaxDelay,
          event \in {"None", "clear", "set"} :
          scrape_with_retry(max_retries, retry_delay, event)
    \/ RetryStep
    \/ set_shutdown

SpecRetry == InitRetry /\ [][NextRetry]_vars

\* the thread that runs scrape_with_retry keeps running, and initialize(),
\* scrape() and time.sleep(1) end
SpecRetryFair == SpecRetry /\ WF_vars(RetryStep)

\* ---------------------------------------------------------------------------
\* app/scrapers/base_scraper.py: CaptchaState and
\* BaseScraper._handle_anti_bot_protection, run by two scrapers
\* ---------------------------------------------------------------------------

\* settings.captcha_timeout_minutes in ticks of the clock, and the last tick
CaptchaTimeout == 2
MaxClock == 5

set_waiting(source) ==
    [status |-> "WAITING_FOR_CAPTCHA", waiting_since |-> clock, source |-> source]

set_normal == NormalState

is_waiting == captcha_state.status = "WAITING_FOR_CAPTCHA"

is_timeout ==
    IF captcha_state.waiting_since = NoneNum THEN FALSE
    ELSE clock - captcha_state.waiting_since > CaptchaTimeout

InWaitLoop(s) == handlers[s].pc \in {"loop", "sleeping"}

ProcessorUnchanged ==
    UNCHANGED <<listings, committed, neighborhood_stats, session_ok, pc,
                batch_source, stats, processed, batch_result, call, now, ncalls,
                probe, sessions, notify_vars, scraper_vars>>

\* scraper s calls the handler: without a CAPTCHA on its page it resets a
\* waiting state and returns, with one it sets the state and enters the loop
_handle_anti_bot_protection(s, detected) ==
    /\ handlers[s].pc = "idle"
    /\ clock + CaptchaTimeout < MaxClock
    /\ IF ~detected
       THEN /\ captcha_state' = IF is_waiting THEN set_normal ELSE captcha_state
            /\ handlers' = [handlers EXCEPT ![s] = [pc |-> "idle", ended |-> "clear"]]
       ELSE /\ captcha_state' = set_waiting(s)
            /\ handlers' = [handlers EXCEPT ![s] = [pc |-> "loop", ended |-> "none"]]
    /\ UNCHANGED clock
    /\ ProcessorUnchanged

\* the head of the wait loop: the timeout check, then the sleep begins
WaitLoopCheck(s) ==
    /\ handlers[s].pc = "loop"
    /\ IF is_timeout
       THEN /\ captcha_state' = set_normal
            /\ handlers' = [handlers EXCEPT ![s] = [pc |-> "idle", ended |-> "TimeoutError"]]
       ELSE /\ handlers' = [handlers EXCEPT ![s].pc = "sleeping"]
            /\ UNCHANGED captcha_state
    /\ UNCHANGED clock
    /\ ProcessorUnchanged

\* after the sleep the page is refreshed and checked again: the CAPTCHA is
\* gone, or still there (or the check failed), or Chrome is gone
WaitLoopRecheck(s, found) ==
    /\ handlers[s].pc = "sleeping"
    /\ IF found = "resolved"
       THEN /\ captcha_state' = set_normal
            /\ handlers' = [handlers EXCEPT ![s] = [pc |-> "idle", ended |-> "resolved"]]
       ELSE IF found = "ConnectionError"
       THEN /\ captcha_state' = set_normal
            /\ handlers' = [handlers EXCEPT ![s] = [pc |-> "idle", ended |-> "ConnectionError"]]
       ELSE /\ handlers' = [handlers EXCEPT ![s].pc = "loop"]
            /\ UNCHANGED captcha_state
    /\ UNCHANGED clock
    /\ ProcessorUnchanged

\* time passes
ClockTick ==
    /\ clock < MaxClock
    /\ clock' = clock + 1
    /\ UNCHANGED <<captcha_state, handlers>>
    /\ ProcessorUnchanged

WaitLoopStep(s) ==
    \/ WaitLoopCheck(s)
    \/ \E found \in {"resolved", "captcha", "ConnectionError"} : WaitLoopRecheck(s, found)

NextCaptcha ==
    \/ \E s \in Scrapers, detected \in BOOLEAN : _handle_anti_bot_protection(s, detected)
    \/ \E s \in Scrapers : WaitLoopStep(s)
    \/ ClockTick

SpecCaptcha == Init /\ [][NextCaptcha]_vars

\* each scraper's thread keeps running and time passes
SpecCaptchaFair ==
    /\ SpecCaptcha
    /\ \A s \in Scrapers : WF_vars(WaitLoopStep(s))
    /\ WF_vars(ClockTick)

\* ------------------------------------------------------------------------
\* Properties
\* ------------------------------------------------------------------------
\* a step of the loop of process_listings; call' describes the call and the
\* unprimed tables are the state it started from
ProcessStep == pc = "batch" /\ processed' = processed + 1 /\ call'.kind = "process"

HashesDistinct(db) ==
    \A i, j \in Ids(db) : db[i].property_hash = db[j].property_hash => i = j

PairsDistinct(db) ==
    \A i, j \in Ids(db) :
        ( /\ db[i].source # NoneStr
          /\ db[i].external_id # NoneStr
          /\ db[i].source = db[j].source
          /\ db[i].external_id = db[j].external_id ) => i = j

\* the raw listing matches nothing in the store
Unmatched(db, raw, source) ==
    \A first \in PhoneFirstChoices(db, RawPhone(raw)) :
        find_duplicate(db, RawHash(raw), source, GetStr(raw.external_id),
                       RawPhone(raw), RawAddress(raw), first).listing = 0

RowsOf(db, raw) == {i \in Ids(db) : db[i].property_hash = RawHash(raw)}

C2_NewThenDuplicates ==
    [][ ProcessStep =>
        LET raw == call'.raw
        IN /\ ( /\ passes_all_filters(settings, raw)
                /\ ~HashRaises(RawAddress(raw))
                /\ Unmatched(listings, raw, call'.source) )
              => call'.outcome = "new"
           /\ ( /\ call.kind = "process"
                /\ call.raw = raw
                /\ call.outcome = "new" )
              => /\ call'.outcome = "duplicates"
                 /\ Cardinality(RowsOf(listings', raw)) = 1
                 /\ \A i \in RowsOf(listings', raw) :
                        Len(listings'[i].price_history) = 1
           /\ ( /\ call.kind = "process"
                /\ call.raw = raw
                /\ call.outcome = "duplicates" )
              => /\ call'.outcome = "duplicates"
                 /\ \A i \in RowsOf(listings', raw) :
                        /\ listings'[i].price_history = listings[i].price_history
                        /\ listings'[i].description_history
                               = listings[i].description_history
      ]_vars

\* the outcome the update of stored listing l with the raw listing should have
ExpectedUpdateOutcome(l, raw) ==
    LET new_price == GetNum(raw.price)
        new_description == GetStr(raw.description)
    IN IF TruthyNum(new_price) /\ TruthyNum(l.price) /\ new_price < l.price
       THEN "price_drops"
       ELSE IF TruthyNum(new_price) /\ new_price # l.price
       THEN "updated"
       ELSE IF TruthyStr(new_description) /\ new_description # l.description
       THEN "updated"
       ELSE "duplicates"

\* C3: updating a stored listing returns 'price_drops' exactly when the raw
\* price is strictly lower than the price stored before the update,
\* 'updated' when the price changed otherwise or the description changed,
\* and 'duplicates' when neither changed, for every stored listing, one
\* stored without a price included (stated for stored listings with a title).
C3_UpdateOutcome ==
    [][ ( /\ ProcessStep
          /\ call'.searched
          /\ call'.found # 0
          /\ listings[call'.found].title # NoneStr )
        => call'.outcome = ExpectedUpdateOutcome(listings[call'.found], call'.raw)
      ]_vars

\* C4: when a step lowers the price of a stored listing whose status is
\* 'not_interested', the status becomes 'unseen' if the drop is at least
\* min_price_drop_percent_notify percent of the old price, and stays
\* 'not_interested' if the drop is smaller.
C4_StatusResetOnDrop ==
    [][ \A id \in Ids(listings) \cap Ids(listings') :
          LET old == listings[id]
              new == listings'[id]
          IN ( /\ old.status = "not_interested"
               /\ TruthyNum(old.price)
               /\ TruthyNum(new.price)
               /\ new.price < old.price )
             => /\ (old.price - new.price) * 100
                      >= min_price_drop_percent_notify * old.price
                   => new.status = "unseen"
                /\ (old.price - new.price) * 100
                      < min_price_drop_percent_notify * old.price
                   => new.status = "not_interested"
      ]_vars

\* a not_interested listing dropped by exactly the configured percentage
\* and is unseen again
C4_Witness ==
    /\ call.kind = "process"
    /\ call.outcome = "price_drops"
    /\ call.old_status = "not_interested"
    /\ TruthyNum(call.old_price)
    /\ (call.old_price - listings[call.listing].price) * 100
           = min_price_drop_percent_notify * call.old_price
    /\ listings[call.listing].status = "unseen"

\* C5: process_listings never raises for a per-listing problem: it returns
\* the stats with the keys new, updated, duplicates, filtered, price_drops,
\* and a failure on one raw listing does not stop the later ones from being
\* processed, counted and committed.
C5_BatchNeverRaises ==
    /\ batch_result # "raised"
    /\ DOMAIN stats = {"new", "updated", "duplicates", "filtered", "price_drops"}
    /\ call.kind = "process" => call.error # "PendingRollbackError"

\* C6: a raw listing whose processing raises is counted in no counter and
\* none of its writes are in the state the batch commits: the tables the
\* commit writes are as if the listing had not been in the batch.
C6_ErroredListingLeavesNoTrace ==
    [][ (ProcessStep /\ call'.outcome = "raised") =>
            /\ stats' = stats
            /\ listings' = listings
      ]_vars

\* C7: a raw listing with a price that passes the filters and matches no
\* stored listing returns 'new', even with only address, rooms, size_sqm,
\* price and city; the store gains exactly one Listing with status 'unseen',
\* a deal_score within [0,100] and one PriceHistory row holding its price.
C7_MinimalListingIsNew ==
    [][ ( /\ ProcessStep
          /\ passes_all_filters(settings, call'.raw)
          /\ TruthyNum(GetNum(call'.raw.price))
          /\ ~HashRaises(RawAddress(call'.raw))
          /\ Unmatched(listings, call'.raw, call'.source) )
        => /\ call'.outcome = "new"
           /\ Len(listings') = Len(listings) + 1
           /\ LET l == listings'[Len(listings')]
              IN /\ l.status = "unseen"
                 /\ l.deal_score.num >= 0
                 /\ l.deal_score.num <= 100 * l.deal_score.den
                 /\ Len(l.price_history) = 1
                 /\ l.price_history[1].price = call'.raw.price
      ]_vars

\* C8: find_duplicate tries property hash, then (source, external_id), then
\* phone with fuzzy address, and returns the first hit: a hash match wins
\* over another row matching by external id or phone; strategy 2 is skipped
\* without an external_id and strategy 3 without a phone; it returns
\* (None, '') exactly when no strategy matches.
C8_StrategyOrder ==
    [][ (ProcessStep /\ call'.searched) =>
        LET c == call'
            external_id == GetStr(c.raw.external_id)
            phone == RawPhone(c.raw)
            HashHits == RowsOf(listings, c.raw)
            ExtHits == IF TruthyStr(external_id)
                       THEN {i \in Ids(listings) :
                               /\ listings[i].source = c.source
                               /\ listings[i].external_id = external_id}
                       ELSE {}
            PhoneHit == IF TruthyTxt(phone) /\ c.consulted # 0
                        THEN find_by_phone_fuzzy(listings, phone, RawAddress(c.raw),
                                                 c.consulted).listing
                        ELSE 0
        IN /\ HashHits # {}
              => c.method = "property_hash" /\ c.found \in HashHits
           /\ (HashHits = {} /\ ExtHits # {})
              => c.method = "external_id" /\ c.found \in ExtHits
           /\ (HashHits = {} /\ ExtHits = {} /\ PhoneHit # 0)
              => c.method = "phone_fuzzy" /\ c.found = PhoneHit
           /\ ~TruthyStr(external_id) => c.method # "external_id"
           /\ ~TruthyTxt(phone) => c.method # "phone_fuzzy"
           /\ (c.found = 0 /\ c.method = "")
              <=> (HashHits = {} /\ ExtHits = {} /\ PhoneHit = 0)
           /\ c.found = 0 <=> c.method = ""
      ]_vars

\* the hash matched one row while (source, external_id) matched another
C8_Witness ==
    /\ call.kind = "process"
    /\ call.method = "property_hash"
    /\ TruthyStr(GetStr(call.raw.external_id))
    /\ \E j \in Ids(listings) :
           /\ j # call.found
           /\ listings[j].source = call.source
           /\ listings[j].external_id = call.raw.external_id

\* C9: in the phone strategy the stored listing with the same normalized
\* phone is accepted when the address similarity is at or above the
\* threshold and rejected when it is below.
C9_ThresholdInclusive ==
    [][ (ProcessStep /\ call'.searched /\ call'.consulted # 0) =>
        LET c == call'
            similarity == AddressSimilarity(listings[c.consulted].address,
                                            RawAddress(c.raw))
        IN /\ similarity >= similarity_threshold
              => c.method = "phone_fuzzy" /\ c.found = c.consulted
           /\ similarity < similarity_threshold
              => c.method # "phone_fuzzy"
      ]_vars

\* C10: no two stored listings share a (source, external_id) pair with a
\* non-null external_id, and the processor never tries to insert a row that
\* violates the constraint, whatever the raw listing's own source is
\* relative to the source argument.
C10_SourceExternalIdUnique ==
    /\ PairsDistinct(listings)
    /\ PairsDistinct(committed)
    /\ call.kind = "process" => call.integrity # "source_external_id"

\* C11: when process_single_listing returns 'filtered' the storage is
\* unchanged: no Listing or history row is created, and a stored listing the
\* raw listing would have matched keeps price, description, last_seen,
\* last_checked, status and deal_score.
C11_FilteredLeavesStorage ==
    [][ (ProcessStep /\ call'.outcome = "filtered") =>
            /\ listings' = listings
            /\ committed' = committed
      ]_vars

\* a raw listing was filtered days after the listing it matches was stored
\* with another price
C11_Witness ==
    /\ call.kind = "process"
    /\ call.outcome = "filtered"
    /\ \E i \in RowsOf(listings, call.raw) :
           /\ listings[i].price # call.raw.price
           /\ listings[i].last_seen < now

\* the rows of a table, whatever their ids
Rows(db) == {db[i] : i \in Ids(db)}

SameResult(x, y) ==
    /\ x.result = y.result
    /\ x.stats = y.stats
    /\ Rows(x.committed) = Rows(y.committed)

\* two raw listings that can concern the same stored listing
SharedKey(r1, r2) ==
    \/ RawHash(r1) = RawHash(r2)
    \/ TruthyStr(GetStr(r1.external_id)) /\ GetStr(r1.external_id) = GetStr(r2.external_id)
    \/ TruthyTxt(RawPhone(r1)) /\ RawPhone(r1) = RawPhone(r2)

MatchIn(db, raw) ==
    find_duplicate(db, RawHash(raw), "yad2", GetStr(raw.external_id), RawPhone(raw),
                   RawAddress(raw), MinOrZero(PhoneRows(db, RawPhone(raw)))).listing

PairwiseDifferentProperties(batch, db) ==
    \A i, j \in 1..Len(batch) :
        i < j => /\ ~SharedKey(batch[i], batch[j])
                 /\ MatchIn(db, batch[i]) = 0 \/ MatchIn(db, batch[i]) # MatchIn(db, batch[j])

C13_SeenTimes ==
    [][ /\ \A i \in Ids(listings) \cap Ids(listings') :
              /\ listings'[i].first_seen = listings[i].first_seen
              /\ listings'[i].last_seen >= listings[i].last_seen
        /\ \A i \in Ids(listings') : listings'[i].first_seen <= listings'[i].last_seen
        /\ ( /\ ProcessStep
             /\ call'.raw.title # NoneStr
             /\ ~HashRaises(call'.raw.address)
             /\ passes_all_filters(settings, call'.raw) )
           => \A i \in RowsOf(listings, call'.raw) :
                  /\ listings'[i].last_seen = now
                  /\ listings'[i].last_checked = now
      ]_vars

\* C14: every stored listing that has a price and a size_sqm greater than 0
\* has price_per_sqm = price / size_sqm.
C14_PricePerSqmDerived ==
    \A i \in Ids(listings) :
        ( /\ TruthyNum(listings[i].price)
          /\ listings[i].size_sqm # NoneNum
          /\ listings[i].size_sqm > 0 )
        => /\ listings[i].price_per_sqm # NoneNum
           /\ listings[i].price_per_sqm * listings[i].size_sqm = listings[i].price

NumericFields == {"price", "rooms", "size_sqm", "floor"}
FlagFields == {"has_elevator", "has_parking", "has_mamad", "city"}

\* the raw listing without the key
Removed(raw, field) ==
    IF field \in NumericFields THEN [raw EXCEPT ![field] = AbsentNum]
    ELSE [raw EXCEPT ![field] = AbsentStr]

NoFilteredField(raw) ==
    /\ \A f \in NumericFields : raw[f] = AbsentNum
    /\ \A f \in FlagFields : raw[f] = AbsentStr

\* C15: under every configuration a raw listing without price, rooms,
\* size_sqm, floor, has_elevator, has_parking, has_mamad and city passes the
\* filters, and a raw listing that passes still passes with any one of these
\* fields removed.
C15_PermissiveByAbsence ==
    probe.kind = "filtered" =>
        /\ NoFilteredField(probe.raw) => probe.passes
        /\ probe.passes =>
             \A f \in NumericFields \cup FlagFields :
                 passes_all_filters(probe.settings, Removed(probe.raw, f))

\* s2 differs from s only by looser thresholds
Looser(s, s2) ==
    /\ s2.max_price >= s.max_price
    /\ s2.min_rooms <= s.min_rooms
    /\ s2.min_size_sqm <= s.min_size_sqm
    /\ s2.require_elevator_above_floor >= s.require_elevator_above_floor
    /\ s2.require_parking = s.require_parking
    /\ s2.require_mamad = s.require_mamad

\* C16: a raw listing that passes all filters also passes under every
\* configuration with a higher max_price, a lower min_rooms, a lower
\* min_size_sqm or a higher elevator floor threshold, and a raw listing on a
\* floor above the elevator threshold without an elevator is rejected
\* whatever the threshold is.
C16_ThresholdMonotonic ==
    probe.kind = "filtered" =>
        /\ probe.passes =>
             \A s2 \in FilterSettings :
                 Looser(probe.settings, s2) => passes_all_filters(s2, probe.raw)
        /\ ( /\ GetNum(probe.raw.floor) # NoneNum
             /\ GetNum(probe.raw.floor) > probe.settings.require_elevator_above_floor
             /\ probe.raw.has_elevator = "False" )
           => ~probe.passes

\* C17: calculate_score returns a value within [0, 100] for every listing,
\* every state of the neighborhood statistics and every price history,
\* also for a listing whose fields are all null.
C17_ScoreWithinRange ==
    probe.kind = "scored" =>
        /\ probe.score.den > 0
        /\ probe.score.num >= 0
        /\ probe.score.num <= 100 * probe.score.den

\* a listing with every feature, 30% under the neighborhood average, after a
\* 10% price drop, under weights that sum to more than 100: the score is 100
C17_Witness ==
    /\ probe.kind = "scored"
    /\ probe.settings.deal_score_weight_price = 60
    /\ probe.listing.price_per_sqm = 20000
    /\ probe.nstats # {}
    /\ Len(probe.history) = 2
    /\ probe.score.num = 100 * probe.score.den

\* a listing whose fields are all null is scored too
C17_AllNullScored ==
    /\ probe.kind = "scored"
    /\ probe.listing.price_per_sqm = NoneNum
    /\ probe.listing.has_parking = NoneStr
    /\ probe.listing.floor = NoneNum
    /\ probe.listing.first_seen = NoneNum
    /\ probe.history = <<>>
    /\ probe.score.num > 0

\* C18: a step that processes a raw listing without an address (key absent,
\* None or empty) raises inside the batch loop: no counter moves and the
\* stored listings stay as they were.
C18_NoAddressSkipped ==
    [][ (ProcessStep /\ ~TruthyTxt(GetTxt(call'.raw.address))) =>
            /\ call'.outcome = "raised"
            /\ stats' = stats
            /\ listings' = listings
      ]_vars

IsNotWhitespace(c) == ~IsWs(c)

\* the address in lower case with all whitespace removed
LowerNoWhitespace(address) == SelectSeq(Lower(address), IsNotWhitespace)

\* C19: two calls of generate_property_hash return the same hash exactly
\* when their addresses are equal after lower-casing and removing all
\* whitespace and their rooms and sizes are equal.
C19_HashOfNormalizedTriple ==
    probe.kind = "hashed" =>
        ( probe.hash1 = probe.hash2
          <=> /\ LowerNoWhitespace(probe.address1) = LowerNoWhitespace(probe.address2)
              /\ probe.rooms1 = probe.rooms2
              /\ probe.size1 = probe.size2 )

LocalDigits(phone) ==
    LET digits == SelectSeq(phone, IsDigit)
    IN IF StartsWith972(digits) THEN <<"0">> \o SubSeq(digits, 4, Len(digits))
       ELSE digits

\* C21: normalize_israeli_phone returns None for None, for an input without
\* digits and for an input with fewer than 9 or more than 10 digits; every
\* other result consists of 9 or 10 digits.
C21_InvalidPhoneIsNone ==
    probe.kind = "phone_output" =>
        /\ probe.phone = NoneTxt => probe.result = NoneTxt
        /\ (probe.phone # NoneTxt /\ Len(LocalDigits(probe.phone)) \notin {9, 10})
               => probe.result = NoneTxt
        /\ probe.result # NoneTxt =>
               /\ Len(probe.result) \in {9, 10}
               /\ \A i \in 1..Len(probe.result) : IsDigit(probe.result[i])

StatsStep == pc = "idle" /\ call'.kind = "stats"

CountAtMost(db, group, field, v) == Cardinality({i \in group : db[i][field] <= v})
CountAtLeast(db, group, field, v) == Cardinality({i \in group : db[i][field] >= v})

\* m2 is twice the median of the field over the group
IsMedianTwice(db, group, field, m2) ==
    \E i, j \in group :
        /\ db[i][field] <= db[j][field]
        /\ m2 = db[i][field] + db[j][field]
        /\ (Cardinality(group) % 2 = 1) => i = j
        /\ (Cardinality(group) % 2 = 0) => i # j
        /\ 2 * CountAtMost(db, group, field, db[i][field]) >= Cardinality(group)
        /\ 2 * CountAtLeast(db, group, field, db[j][field]) >= Cardinality(group)

\* C22: after a statistics update a (city, neighborhood) group with fewer
\* than 3 listings of positive price and price per sqm has no stats row, a
\* group with 3 or more has exactly one, whose sample_size is the size of the
\* group and whose means and medians are those of the group's prices; there
\* is never more than one row per (city, neighborhood).
C22_StatsGating ==
    [][ /\ \A s1, s2 \in neighborhood_stats' : StatsKey(s1) = StatsKey(s2) => s1 = s2
        /\ StatsStep =>
             \A i \in Ids(committed) :
                 LET key == StatsKey(committed[i])
                     group == {j \in Ids(committed) :
                                  /\ StatsKey(committed[j]) = key
                                  /\ committed[j].price # NoneNum
                                  /\ committed[j].price > 0
                                  /\ committed[j].price_per_sqm # NoneNum
                                  /\ committed[j].price_per_sqm > 0}
                     rows == {st \in neighborhood_stats' : StatsKey(st) = key}
                 IN IF Cardinality(group) < 3 THEN rows = {}
                    ELSE \E st \in rows :
                           /\ rows = {st}
                           /\ st.sample_size = Cardinality(group)
                           /\ st.avg_price_num * Cardinality(group)
                                  = st.avg_price_den * SumOf(committed, group, "price")
                           /\ st.avg_ppsqm_num * Cardinality(group)
                                  = st.avg_ppsqm_den * SumOf(committed, group, "price_per_sqm")
                           /\ IsMedianTwice(committed, group, "price", st.median_price2)
                           /\ IsMedianTwice(committed, group, "price_per_sqm",
                                            st.median_ppsqm2)
      ]_vars

\* three qualifying listings of one neighborhood are committed and the
\* statistics job has written their row: mean 8,500,000 / 3, median 2,800,000
C22_Witness ==
    /\ call.kind = "stats"
    /\ Cardinality(QualifyingListings(committed)) = 3
    /\ \E st \in neighborhood_stats :
          /\ st.sample_size = 3
          /\ st.avg_price_num = 8500000
          /\ st.avg_price_den = 3
          /\ st.median_price2 = 5600000

Amenities == {"has_elevator", "has_parking", "has_balcony", "has_mamad"}

\* the listing object with the four amenities of the raw listing
WithRawAmenities(raw, today) ==
    [NewListing(raw, RawHash(raw), today) EXCEPT
        !.has_elevator = GetFlag(raw.has_elevator),
        !.has_parking = GetFlag(raw.has_parking),
        !.has_balcony = GetFlag(raw.has_balcony),
        !.has_mamad = GetFlag(raw.has_mamad)]

\* C23: a step that creates a listing stores the four amenity booleans of
\* the raw listing, and the deal_score it stores is the score of a listing
\* with those four values.
C23_AmenitiesStored ==
    [][ (ProcessStep /\ call'.outcome = "new") =>
            /\ \A f \in Amenities :
                   listings'[call'.listing][f] = GetFlag(call'.raw[f])
            /\ listings'[call'.listing].deal_score
                   = calculate_score(settings, WithRawAmenities(call'.raw, now),
                                     neighborhood_stats, <<>>, now)
      ]_vars

\* the raw listings of the batch other than the one whose insert was rejected
OtherRaws(ss) == {ss.batch[i] : i \in (1..Len(ss.batch)) \ {ss.rejected}}

\* C24: the storage never holds two listings with one property hash, and a
\* batch that had an insert rejected ends by returning its counters, with a
\* listing in the storage for each of its other raw listings.
C24_RejectedInsertIsLocal ==
    /\ HashesDistinct(committed)
    /\ \A s \in SessionIds :
         (sessions[s].pc = "done" /\ sessions[s].rejected # 0) =>
             /\ sessions[s].result = "returned"
             /\ \A raw \in OtherRaws(sessions[s]) : RowsOf(committed, raw) # {}

\* rows of a table or log about one listing and one notification type
Count(log, id, notification_type) ==
    Cardinality({i \in DOMAIN log : /\ log[i].listing_id = id
                                    /\ log[i].notification_type = notification_type})

\* C25: for each listing at most one 'new_listing' and at most one
\* 'high_score' notification is ever sent and recorded, also when the
\* notification passes of two scrape jobs interleave at their awaits.
C25_AtMostOnePerType ==
    \A id \in Ids(committed) : \A t \in {"new_listing", "high_score"} :
        /\ Count(delivered, id, t) <= 1
        /\ Count(notifications, id, t) <= 1

AttemptStarts == retrying.pc = "loop" /\ retrying'.pc = "attempt"

Returns == retrying.pc \in {"loop", "attempt", "delay"} /\ retrying'.pc = "done"

\* the step ends an attempt that succeeded
AttemptSucceeds ==
    /\ retrying.pc = "attempt"
    /\ Len(retrying'.outcomes) = Len(retrying.outcomes) + 1
    /\ retrying'.outcomes[Len(retrying'.outcomes)].outcome = "ok"

AllFailed(r) ==
    /\ Len(r.outcomes) = r.max_retries
    /\ \A i \in DOMAIN r.outcomes : r.outcomes[i].outcome = "error"

FirstDisconnection(r) ==
    /\ r.outcomes # <<>>
    /\ r.outcomes[Len(r.outcomes)].outcome = "disconnected"
    /\ \A i \in 1..(Len(r.outcomes) - 1) : r.outcomes[i].outcome = "error"

\* an attempt starts only while fewer than max_retries attempts were made and
\* the shutdown event is not set, and a set event stays set
StartsGuarded ==
    /\ AttemptStarts => /\ Len(retrying.outcomes) < retrying.max_retries
                        /\ ~ShutdownIsSet
    /\ (ShutdownIsSet /\ retrying.pc # "idle") => shutdown_event' = "set"

\* the call returns the listings of the first successful attempt, or []
\* after max_retries failed attempts, after the first disconnection, or
\* because the shutdown event is set
ReturnsListingsOrEmpty ==
    Returns =>
        IF AttemptSucceeds
        THEN /\ retrying'.result = retrying'.outcomes[Len(retrying'.outcomes)].listings
             /\ \A i \in DOMAIN retrying.outcomes : retrying.outcomes[i].outcome = "error"
        ELSE /\ retrying'.result = <<>>
             /\ \/ ShutdownIsSet
                \/ AllFailed(retrying')
                \/ FirstDisconnection(retrying')

Terminates == (retrying.pc # "idle") ~> (retrying.pc = "done")

\* C26: scrape_with_retry starts an attempt only while fewer than max_retries
\* attempts were made and the shutdown event is not set; once the event is
\* set the call returns []; the call always terminates, with the listings of
\* the first successful attempt or with [].
C26_ShutdownReturnsEmpty ==
    /\ [][StartsGuarded]_vars
    /\ [][ReturnsListingsOrEmpty]_vars
    /\ [][(Returns /\ ShutdownIsSet) => retrying'.result = <<>>]_vars
    /\ Terminates

\* C26, with the attempt that runs when the event is set: no further attempt
\* starts, and the call returns [] unless that attempt succeeds, whose
\* listings it returns.
C26_ShutdownStopsRetries ==
    /\ [][StartsGuarded]_vars
    /\ [][ReturnsListingsOrEmpty]_vars
    /\ [][(Returns /\ ShutdownIsSet) =>
             \/ retrying'.result = <<>>
             \/ AttemptSucceeds]_vars
    /\ Terminates

C26_Witness ==
    /\ retrying.pc = "done"
    /\ shutdown_event = "set"
    /\ Len(retrying.outcomes) = 2
    /\ retrying.outcomes[1].outcome = "error"
    /\ retrying.outcomes[2].outcome = "ok"
    /\ retrying.result = <<"l1", "l2">>

IsPrefix(s, t) == Len(s) <= Len(t) /\ \A i \in DOMAIN s : s[i] = t[i]

\* the last row of a priced listing holds its price, and no two consecutive
\* rows hold the same price
PriceHistoryConsistent(l) ==
    /\ TruthyNum(l.price) =>
           /\ l.price_history # <<>>
           /\ l.price_history[Len(l.price_history)].price = l.price
    /\ \A i \in 1..(Len(l.price_history) - 1) :
           l.price_history[i].price # l.price_history[i + 1].price

\* C27: the PriceHistory rows of a stored listing are only ever appended,
\* the most recent row holds the listing's current price whenever it has
\* one, and no two consecutive rows hold the same price.
C27_PriceHistoryAppendOnly ==
    /\ [][\A id \in Ids(committed) :
             /\ id \in Ids(committed')
             /\ IsPrefix(committed[id].price_history, committed'[id].price_history)]_vars
    /\ [](\A id \in Ids(committed) : PriceHistoryConsistent(committed[id]))

\* a listing whose price went down and back up: three rows
C27_Witness ==
    \E id \in Ids(committed) :
        /\ Len(committed[id].price_history) = 3
        /\ committed[id].price_history[1].price = committed[id].price_history[3].price
        /\ committed[id].price = committed[id].price_history[3].price

\* C28: processing raw listings changes a stored listing's status only from
\* 'not_interested' to 'unseen' on a qualifying price drop; 'unseen',
\* 'interested' and 'contacted' listings keep their status and every
\* listing keeps its user_note, whatever the price and description changes.
C28_StatusAndNoteKept ==
    [][ pc = "batch" =>
          \A id \in Ids(listings) \cap Ids(listings') :
            LET old == listings[id]
                new == listings'[id]
            IN /\ new.user_note = old.user_note
               /\ \/ new.status = old.status
                  \/ /\ old.status = "not_interested"
                     /\ new.status = "unseen"
                     /\ TruthyNum(old.price)
                     /\ new.price < old.price
                     /\ (old.price - new.price) * 100
                            >= min_price_drop_percent_notify * old.price
      ]_vars

\* a contacted listing with a note dropped by the configured percentage and
\* changed its description, and is still contacted with its note
C28_Witness ==
    /\ call.kind = "process"
    /\ call.outcome = "price_drops"
    /\ call.old_status = "contacted"
    /\ (call.old_price - listings[call.listing].price) * 100
           >= min_price_drop_percent_notify * call.old_price
    /\ listings[call.listing].description_history # <<>>
    /\ listings[call.listing].status = "contacted"
    /\ listings[call.listing].user_note = "n1"

\* C29: with two scrapers on the shared CAPTCHA state, the state is
\* WAITING_FOR_CAPTCHA while a scraper is in the wait loop, every wait ends,
\* and the state is NORMAL whenever no scraper is in the wait loop.
C29_SharedCaptchaState ==
    /\ [](\A s \in Scrapers : InWaitLoop(s) => is_waiting)
    /\ \A s \in Scrapers : InWaitLoop(s) ~> ~InWaitLoop(s)
    /\ []((\A s \in Scrapers : ~InWaitLoop(s)) => captcha_state = NormalState)

\* C29, the part about no scraper waiting
T29_NormalWhenIdle == (\A s \in Scrapers : ~InWaitLoop(s)) => captcha_state = NormalState

\* C29, the part about the end of the wait
T29_WaitEnds == \A s \in Scrapers : InWaitLoop(s) ~> ~InWaitLoop(s)

\* the waits that go on forever are those whose waiting_since was reset
T29_WaitEndsUnlessReset ==
    \A s \in Scrapers :
        InWaitLoop(s) ~> (~InWaitLoop(s) \/ captcha_state.waiting_since = NoneNum)

====
